---- MODULE Spec2Model ----
(***************************************************************************)
(* StdioTransport of src/src/transport/framing.ts: the frame reader (auto  *)
(* detection, content-length and newline extraction), message              *)
(* classification, the AsyncSemaphore gate, request and notification       *)
(* dispatch and the response writer.                                       *)
(*                                                                         *)
(* The wire is a sequence of symbols.  A symbol is one UTF-16 code unit of *)
(* the stream: "CR", "LF", "SP", "TAB", the letters of the header key, the *)
(* digits, the JSON brackets and the comma, "x" (any other ASCII           *)
(* character) and "e2" (a character of one code unit and two UTF-8 bytes,  *)
(* such as U+00E9).  The members of a JSON object are abbreviated to one   *)
(* symbol each (the table Members), so `{a}` stands for a request text and *)
(* JSON.parse is modelled on these abbreviated texts.                      *)
(***************************************************************************)
EXTENDS Integers, Sequences, FiniteSets, TLC

(***************************************************************************)
(* Strings                                                                 *)
(***************************************************************************)
Min(a, b) == IF a < b THEN a ELSE b

Max(a, b) == IF a > b THEN a ELSE b

Whitespace == {"SP", "CR", "LF", "TAB"}

Digits == {"0", "1", "2", "3", "4", "5", "6", "7", "8", "9"}

DigitValue(c) ==
  CASE c = "0" -> 0 [] c = "1" -> 1 [] c = "2" -> 2 [] c = "3" -> 3
    [] c = "4" -> 4 [] c = "5" -> 5 [] c = "6" -> 6 [] c = "7" -> 7
    [] c = "8" -> 8 [] c = "9" -> 9

DigitChar(n) ==
  CASE n = 0 -> "0" [] n = 1 -> "1" [] n = 2 -> "2" [] n = 3 -> "3"
    [] n = 4 -> "4" [] n = 5 -> "5" [] n = 6 -> "6" [] n = 7 -> "7"
    [] n = 8 -> "8" [] n = 9 -> "9"

\* The literal "Content-Length:" of processBuffer and of the header regex.
HeaderKey ==
  <<"C", "o", "n", "t", "e", "n", "t", "-", "L", "e", "n", "g", "t", "h", ":">>

\* The header/body separator "\r\n\r\n".
HeaderSeparator == <<"CR", "LF", "CR", "LF">>

\* Case folding of the /i flag of the header regex.
Lower(c) == CASE c = "C" -> "c" [] c = "L" -> "l" [] OTHER -> c

LowerSeq(s) == [i \in 1..Len(s) |-> Lower(s[i])]

\* String.prototype.slice(a, b) with 0-based code-unit indices.
Slice(s, a, b) == SubSeq(s, a + 1, Min(b, Len(s)))

SliceFrom(s, a) == SubSeq(s, a + 1, Len(s))

StartsWith(s, p) == Len(s) >= Len(p) /\ SubSeq(s, 1, Len(p)) = p

\* String.prototype.indexOf: the 0-based index of the first occurrence, or -1.
IndexOf(s, p) ==
  LET hits == {i \in 0..(Len(s) - Len(p)) : SubSeq(s, i + 1, i + Len(p)) = p}
  IN  IF hits = {} THEN -1 ELSE CHOOSE i \in hits : \A j \in hits : i <= j

\* The number of leading symbols of s that belong to set.
RECURSIVE Span(_, _)
Span(s, set) ==
  IF s # <<>> /\ Head(s) \in set THEN 1 + Span(Tail(s), set) ELSE 0

TrimStart(s) == SliceFrom(s, Span(s, Whitespace))

RECURSIVE TrimEnd(_)
TrimEnd(s) ==
  IF s # <<>> /\ s[Len(s)] \in Whitespace
    THEN TrimEnd(SubSeq(s, 1, Len(s) - 1))
    ELSE s

Trim(s) == TrimEnd(TrimStart(s))

\* UTF-8 bytes of one code unit.
Utf8Bytes(c) == IF c = "e2" THEN 2 ELSE 1

\* Buffer.byteLength(value, "utf8").
RECURSIVE ByteLength(_)
ByteLength(s) ==
  IF s = <<>> THEN 0 ELSE Utf8Bytes(Head(s)) + ByteLength(Tail(s))

\* Template-literal conversion of a non-negative integer to decimal text.
RECURSIVE ToDecimal(_)
ToDecimal(n) ==
  IF n < 10 THEN <<DigitChar(n)>>
  ELSE Append(ToDecimal(n \div 10), DigitChar(n % 10))

\* Faulty variant of ParseIntUpTo: a value above the limit is read as the limit.
RECURSIVE ParseInt_Clamped(_, _, _)
ParseInt_Clamped(digits, acc, cap) ==
  IF digits = <<>> THEN acc
  ELSE ParseInt_Clamped(Tail(digits),
                        Min(acc * 10 + DigitValue(Head(digits)), cap - 1), cap)

\* Number.parseInt(digits, 10), saturated at cap (every value above cap is
\* treated alike by the caller, which only compares it with cap - 1).
RECURSIVE ParseIntUpTo(_, _, _)
ParseIntUpTo(digits, acc, cap) ==
  IF digits = <<>> THEN acc
  ELSE ParseIntUpTo(Tail(digits),
                    Min(acc * 10 + DigitValue(Head(digits)), cap), cap)

\* /Content-Length:\s*(\d+)/i.exec(header): the digits captured by the
\* leftmost match, or <<>> when the regex does not match.
ContentLengthMatch(header) ==
  LET low == LowerSeq(header)
      key == LowerSeq(HeaderKey)
      digitsAt(i) ==
        LET rest == SliceFrom(header, i + Len(key))
            afterWs == SliceFrom(rest, Span(rest, Whitespace))
        IN  SubSeq(afterWs, 1, Span(afterWs, Digits))
      hits == {i \in 0..(Len(header) - Len(key)) :
                 /\ SubSeq(low, i + 1, i + Len(key)) = key
                 /\ digitsAt(i) # <<>>}
  IN  IF hits = {} THEN <<>>
      ELSE digitsAt(CHOOSE i \in hits : \A j \in hits : i <= j)

\* String.prototype.split("\n").
RECURSIVE SplitLines(_)
SplitLines(s) ==
  LET k == IndexOf(s, <<"LF">>)
  IN  IF k = -1 THEN <<s>>
      ELSE <<Slice(s, 0, k)>> \o SplitLines(SliceFrom(s, k + 1))

(***************************************************************************)
(* Configuration and constants                                             *)
(***************************************************************************)
PARSE_ERROR == -32700

INVALID_REQUEST == -32600

INTERNAL_ERROR == -32603

PAYLOAD_TOO_LARGE == -32001

\* Configured sizes used by the scenarios (DEFAULT_CONFIG is overridden by
\* options.config; the scenarios use small limits).
MaxMessageSize == 16

MaxHeaderSize == 24

\* new AsyncSemaphore(limit): this.limit = Math.max(1, limit).
SemaphoreLimit(maxConcurrency) == Max(1, maxConcurrency)

(***************************************************************************)
(* JSON texts                                                              *)
(***************************************************************************)
\* The decoded members a member symbol abbreviates.  jsonrpc: "2.0" or
\* "none" (absent or another value); method: a string, or "none" (absent or
\* not a string); id: "absent" (no id key), "null", a number ("n1".."n3"),
\* a string ("s1") or "obj" (a value of another type).
Message(jsonrpc, method, id) == [jsonrpc |-> jsonrpc, method |-> method, id |-> id]

Members ==
  [a |-> Message("2.0", "m", "n1"),
   b |-> Message("2.0", "m", "n2"),
   c |-> Message("2.0", "m", "s1"),
   n |-> Message("2.0", "m", "absent"),
   i |-> Message("2.0", "notifications/initialized", "absent"),
   z |-> Message("2.0", "m", "null"),
   w |-> Message("2.0", "none", "n3"),
   v |-> Message("none", "m", "absent"),
   o |-> Message("2.0", "m", "obj"),
   q |-> Message("2.0", "", "n1")]

NumberIds == {"n1", "n2", "n3", "n9"}

StringIds == {"s1"}

\* A primitive or null element of a batch: no member can be read from it.
Primitive == Message("none", "none", "absent")

NoValue == [bad |-> TRUE]

\* One JSON value of the abbreviated texts: `{m}`, `{m<e2>}` (the same
\* members, one string of which holds a two-byte character) or a digit.
ParseValue(t) ==
  IF /\ Len(t) \in {3, 4}
     /\ t[1] = "{"
     /\ t[Len(t)] = "}"
     /\ t[2] \in DOMAIN Members
     /\ (Len(t) = 4 => t[3] = "e2")
    THEN Members[t[2]]
  ELSE IF Len(t) = 1 /\ t[1] \in Digits THEN Primitive
  ELSE NoValue

RECURSIVE SplitCommas(_)
SplitCommas(s) ==
  LET k == IndexOf(s, <<",">>)
  IN  IF k = -1 THEN <<s>>
      ELSE <<Slice(s, 0, k)>> \o SplitCommas(SliceFrom(s, k + 1))

\* safeJsonParse(raw): valid with the decoded value (data: the messages,
\* isArray: whether the value is an array), or not valid.
SafeJsonParse(raw) ==
  LET t == SelectSeq(raw, LAMBDA ch : ch \notin Whitespace)
      single == ParseValue(t)
      inner == IF Len(t) >= 2 THEN SubSeq(t, 2, Len(t) - 1) ELSE <<>>
      parts == IF inner = <<>> THEN <<>> ELSE SplitCommas(inner)
      elems == [k \in 1..Len(parts) |-> ParseValue(parts[k])]
  IN  IF single # NoValue /\ single # Primitive
        THEN [valid |-> TRUE, isArray |-> FALSE, data |-> <<single>>]
      ELSE IF /\ Len(t) >= 2
              /\ t[1] = "["
              /\ t[Len(t)] = "]"
              /\ \A k \in 1..Len(elems) : elems[k] # NoValue
        THEN [valid |-> TRUE, isArray |-> TRUE, data |-> elems]
      ELSE [valid |-> FALSE, isArray |-> FALSE, data |-> <<>>]

\* JSON.stringify(response) in the abbreviated texts.
Stringify(response) == <<"{", "x", "}">>

(***************************************************************************)
(* Message classification                                                  *)
(***************************************************************************)
IsNotification(message) ==
  /\ message.jsonrpc = "2.0"
  /\ message.method \notin {"none", ""}
  /\ message.id \in {"absent", "null"}

IsValidRequest(request) ==
  /\ request.jsonrpc = "2.0"
  /\ request.method \notin {"none", ""}
  /\ request.id \in NumberIds \cup StringIds \cup {"null"}

\* Faulty variant of IdOrNull: the id of the message is not carried over.
IdOrNull_Dropped(message) == "null"

\* (message as any)?.id ?? null
IdOrNull(message) == IF message.id = "absent" THEN "null" ELSE message.id

(***************************************************************************)
(* State                                                                   *)
(***************************************************************************)
VARIABLES
  scn,             \* the configuration and the input stream of this run
  pos,             \* symbols of the stream delivered so far
  restarts,        \* stop()/start() cycles so far
  isRunning, buffer, currentFraming, framingResolved,  \* StdioTransport
  active, queue,   \* AsyncSemaphore
  tasks,           \* the handleMessage invocations that reached an await
  reqs,            \* the processRequest invocations
  out,             \* what was written to stdout, in order
  log,             \* logger.error calls, in order
  invoked,         \* handler invocations, in order
  acqOrder,        \* callers of acquire(), in call order
  immediate,       \* the callers acquire() granted without queuing
  grantOrder,      \* callers granted a slot, in grant order
  events,          \* handleMessage and framing-error calls, in order
  server,          \* startJsonRpcServer (src/src/server.ts): its run
  registry,        \* RpcHandlerRegistry (src/src/dispatcher.ts): one call
  client,          \* McpClient (src/src/client/mcp-client.ts)
  detection,       \* detectTransportFraming: the environment and one call
  lifecycle,       \* start() on a running, stop() on a stopped transport
  clientTransport, \* StdioClientTransport (src/unnamed/part_008)
  breaker          \* CircuitBreaker (src/src/test-server.ts)

\* The variables of StdioTransport.
transportVars ==
  <<scn, pos, restarts, isRunning, buffer, currentFraming, framingResolved,
    active, queue, tasks, reqs, out, log, invoked, acqOrder, immediate,
    grantOrder, events>>

\* What a step of one component leaves alone: the other components.
outsideTransport == <<server, registry, client, detection, lifecycle, clientTransport, breaker>>

outsideServer == <<transportVars, registry, client, detection, lifecycle, clientTransport, breaker>>

outsideRegistry == <<transportVars, server, client, detection, lifecycle, clientTransport, breaker>>

outsideClient == <<transportVars, server, registry, detection, lifecycle, clientTransport, breaker>>

outsideDetection == <<transportVars, server, registry, client, lifecycle, clientTransport, breaker>>

outsideLifecycle == <<transportVars, server, registry, client, detection, clientTransport, breaker>>

outsideClientTransport == <<transportVars, server, registry, client, detection, lifecycle, breaker>>

outsideBreaker == <<transportVars, server, registry, client, detection, lifecycle, clientTransport>>

vars == <<transportVars, server, registry, client, detection, lifecycle, clientTransport, breaker>>

\* The transport's state as one value, threaded through the operators below.
State ==
  [buffer |-> buffer, currentFraming |-> currentFraming,
   framingResolved |-> framingResolved, isRunning |-> isRunning,
   active |-> active, queue |-> queue, tasks |-> tasks, reqs |-> reqs,
   out |-> out, log |-> log, invoked |-> invoked, acqOrder |-> acqOrder,
   immediate |-> immediate, grantOrder |-> grantOrder, events |-> events]

Becomes(s) ==
  /\ buffer' = s.buffer
  /\ currentFraming' = s.currentFraming
  /\ framingResolved' = s.framingResolved
  /\ isRunning' = s.isRunning
  /\ active' = s.active
  /\ queue' = s.queue
  /\ tasks' = s.tasks
  /\ reqs' = s.reqs
  /\ out' = s.out
  /\ log' = s.log
  /\ invoked' = s.invoked
  /\ acqOrder' = s.acqOrder
  /\ immediate' = s.immediate
  /\ grantOrder' = s.grantOrder
  /\ events' = s.events

\* The origin of a transport-level error (no request).
NoOrigin == <<0, 0>>

(***************************************************************************)
(* Response writer                                                         *)
(***************************************************************************)
\* The content-length framing of writeResponse.
FrameContentLength(payload) ==
  HeaderKey \o <<"SP">> \o ToDecimal(ByteLength(payload))
    \o HeaderSeparator \o payload

\* The newline framing of writeResponse.
FrameNewline(payload) == Append(payload, "LF")

WriteResponse(s, response, origin) ==
  IF ~response.serializable
    THEN [s EXCEPT !.log = Append(@, "Failed to write response")]
    ELSE LET payload == Stringify(response)
             framed == IF s.currentFraming = "newline"
                         THEN FrameNewline(payload)
                         ELSE FrameContentLength(payload)
         IN  [s EXCEPT !.out = Append(@,
                 [origin |-> origin, id |-> response.id,
                  kind |-> response.kind, code |-> response.code,
                  framing |-> s.currentFraming, wire |-> framed])]

ErrorResponse(id, code) ==
  [id |-> id, kind |-> "error", code |-> code,
   serializable |-> TRUE]

SendError(s, id, code, message, origin) ==
  LET logged == [s EXCEPT !.log = Append(@, message)]
  IN  IF id # "null"
        THEN WriteResponse(logged, ErrorResponse(id, code), origin)
        ELSE logged

(***************************************************************************)
(* AsyncSemaphore                                                          *)
(***************************************************************************)
\* Faulty variant of Acquire: the slot is granted without comparing active with limit.
Acquire_NoLimit(s, limit, caller) ==
  [s EXCEPT !.acqOrder = Append(@, caller),
            !.active = @ + 1,
            !.immediate = @ \cup {caller},
            !.grantOrder = Append(@, caller),
            !.tasks[caller[1]].granted = TRUE]

\* acquire() called by caller: granted at once, or queued.
Acquire(s, limit, caller) ==
  LET called == [s EXCEPT !.acqOrder = Append(@, caller)]
  IN  IF s.active < limit
        THEN [called EXCEPT !.active = @ + 1,
                            !.immediate = @ \cup {caller},
                            !.grantOrder = Append(@, caller),
                            !.tasks[caller[1]].granted = TRUE]
        ELSE [called EXCEPT !.queue = Append(@, caller)]

\* Faulty variant of Release: the slot is freed and the waiter is left waiting.
Release_LeavesSlotIdle(s) == [s EXCEPT !.active = Max(0, @ - 1)]

\* Faulty variant of Release: the most recent waiter is granted (pop, not shift).
Release_Lifo(s) ==
  LET freed == [s EXCEPT !.active = Max(0, @ - 1)]
  IN  IF s.queue # <<>>
        THEN LET next == s.queue[Len(s.queue)]
             IN  [freed EXCEPT !.queue = SubSeq(@, 1, Len(@) - 1),
                               !.active = @ + 1,
                               !.grantOrder = Append(@, next),
                               !.tasks[next[1]].granted = TRUE]
        ELSE freed

\* release(): free the slot and grant the longest-waiting caller, if any.
Release(s) ==
  LET freed == [s EXCEPT !.active = Max(0, @ - 1)]
  IN  IF s.queue # <<>>
        THEN LET next == Head(s.queue)
             IN  [freed EXCEPT !.queue = Tail(@),
                               !.active = @ + 1,
                               !.grantOrder = Append(@, next),
                               !.tasks[next[1]].granted = TRUE]
        ELSE freed

(***************************************************************************)
(* Dispatch: handleMessage, handleNotification, processRequest             *)
(***************************************************************************)
\* The synchronous run of handleMessage's loop for task t from message i up
\* to its next await (acquire() or handleNotification()) or to its end.
RECURSIVE RunLoop(_, _, _, _)
RunLoop(s, cfg, t, i) ==
  LET messages == s.tasks[t].msgs
  IN  IF i > Len(messages)
        THEN [s EXCEPT !.tasks[t].st = "done", !.tasks[t].idx = i]
      ELSE IF IsNotification(messages[i])
        THEN \* handleNotification runs up to the handler's promise
             [s EXCEPT !.tasks[t].st = "notification",
                       !.tasks[t].idx = i,
                       !.invoked = IF cfg.notificationHandler
                                     THEN Append(@, [kind |-> "notification",
                                                     at |-> <<t, i>>,
                                                     active |-> s.active,
                                                     extracted |-> Len(s.events)])
                                     ELSE @]
      ELSE IF IsValidRequest(messages[i])
        THEN Acquire([s EXCEPT !.tasks[t].st = "acquire",
                               !.tasks[t].idx = i,
                               !.tasks[t].granted = FALSE],
                     SemaphoreLimit(cfg.maxConcurrency), <<t, i>>)
      ELSE RunLoop(
             SendError([s EXCEPT !.log = Append(@, "Invalid JSON-RPC message")],
                       IdOrNull(messages[i]), INVALID_REQUEST,
                       "Invalid JSON-RPC message", <<t, i>>),
             cfg, t, i + 1)

\* Faulty variant of HandleMessage: a frame that arrives while the gate is
\* full is not handled.
HandleMessage_Busy(s, cfg, raw) ==
  LET parsed == SafeJsonParse(raw)
      called == [s EXCEPT !.events = Append(@,
                   [op |-> "handleMessage", raw |-> raw,
                    via |-> s.currentFraming])]
      t == Len(s.tasks) + 1
  IN  IF s.active >= SemaphoreLimit(cfg.maxConcurrency) THEN s
      ELSE IF ~parsed.valid
        THEN SendError(called, "null", PARSE_ERROR, "Invalid JSON", NoOrigin)
        ELSE RunLoop(
               [called EXCEPT !.tasks = Append(@,
                  [msgs |-> parsed.data, idx |-> 0, st |-> "running",
                   granted |-> FALSE])],
               cfg, t, 1)

\* handleMessage(raw) up to its first await.
HandleMessage(s, cfg, raw) ==
  LET parsed == SafeJsonParse(raw)
      called == [s EXCEPT !.events = Append(@,
                   [op |-> "handleMessage", raw |-> raw,
                    via |-> s.currentFraming])]
      t == Len(s.tasks) + 1
  IN  IF ~parsed.valid
        THEN SendError(called, "null", PARSE_ERROR, "Invalid JSON", NoOrigin)
        ELSE RunLoop(
               [called EXCEPT !.tasks = Append(@,
                  [msgs |-> parsed.data, idx |-> 0, st |-> "running",
                   granted |-> FALSE])],
               cfg, t, 1)

\* An id other than the request's.
OtherId(id) == IF id = "n9" THEN "n1" ELSE "n9"

\* What the request handler's promise settles to.
HandlerOutcomes == {"ok", "wrongid", "unserializable", "throw"}

HandlerResponse(request, outcome) ==
  [id |-> IF outcome = "wrongid" THEN OtherId(request.id) ELSE request.id,
   kind |-> "result", code |-> 0,
   serializable |-> outcome # "unserializable"]

\* Faulty variant of ProcessRequestSettled: release() follows the write in
\* the try block only, so a throw keeps the slot.
ProcessRequestSettled_NoFinally(s, origin, request, outcome) ==
  IF outcome = "throw"
    THEN SendError([s EXCEPT !.log = Append(@, "Handler error")],
                   request.id, INTERNAL_ERROR, "Internal error", origin)
    ELSE Release(WriteResponse(s, HandlerResponse(request, outcome), origin))

\* processRequest after the handler settled: the write, then finally release().
ProcessRequestSettled(s, origin, request, outcome) ==
  Release(
    IF outcome = "throw"
      THEN SendError([s EXCEPT !.log = Append(@, "Handler error")],
                     request.id, INTERNAL_ERROR, "Internal error", origin)
      ELSE WriteResponse(s, HandlerResponse(request, outcome), origin))

\* Faulty variant of HandleNotificationSettled: a throw is answered with an error.
HandleNotificationSettled_Answers(s, origin, threw) ==
  IF threw
    THEN WriteResponse([s EXCEPT !.log = Append(@, "Notification handler error")],
                       ErrorResponse("null", INTERNAL_ERROR), origin)
    ELSE s

\* handleNotification after the handler settled: a throw is caught and
\* logged; nothing is sent either way.
HandleNotificationSettled(s, origin, threw) ==
  IF threw THEN [s EXCEPT !.log = Append(@, "Notification handler error")]
  ELSE s

(***************************************************************************)
(* Frame reader                                                            *)
(***************************************************************************)
FramingError(s, code, message) ==
  SendError([s EXCEPT !.events = Append(@,
               [op |-> "sendError", code |-> code, message |-> message])],
            "null", code, message, NoOrigin)

\* Faulty variant of ProcessContentLengthFraming: an unterminated header
\* region is kept whatever its length.
RECURSIVE ProcessContentLengthFraming_NoHeaderLimit(_, _)
ProcessContentLengthFraming_NoHeaderLimit(s, cfg) ==
  IF Len(s.buffer) = 0 THEN s
  ELSE
    LET headerSeparator == IndexOf(s.buffer, HeaderSeparator)
        header == Slice(s.buffer, 0, headerSeparator)
        match == ContentLengthMatch(header)
        contentLength == ParseIntUpTo(match, 0, cfg.maxMessageSize + 1)
        messageStart == headerSeparator + 4
        messageEnd == messageStart + contentLength
    IN  IF headerSeparator = -1 THEN s
        ELSE IF match = <<>>
          THEN ProcessContentLengthFraming_NoHeaderLimit(
                 [FramingError(s, PARSE_ERROR, "Missing Content-Length header")
                    EXCEPT !.buffer = SliceFrom(s.buffer, headerSeparator + 4)],
                 cfg)
        ELSE IF contentLength > cfg.maxMessageSize
          THEN ProcessContentLengthFraming_NoHeaderLimit(
                 [FramingError(s, PAYLOAD_TOO_LARGE, "Invalid Content-Length")
                    EXCEPT !.buffer = SliceFrom(s.buffer, headerSeparator + 4)],
                 cfg)
        ELSE IF Len(s.buffer) < messageEnd THEN s
        ELSE ProcessContentLengthFraming_NoHeaderLimit(
               HandleMessage(
                 [s EXCEPT !.buffer = SliceFrom(s.buffer, messageEnd)],
                 cfg, Slice(s.buffer, messageStart, messageEnd)),
               cfg)

RECURSIVE ProcessContentLengthFraming(_, _)
ProcessContentLengthFraming(s, cfg) ==
  IF Len(s.buffer) = 0 THEN s
  ELSE
    LET headerSeparator == IndexOf(s.buffer, HeaderSeparator)
        header == Slice(s.buffer, 0, headerSeparator)
        match == ContentLengthMatch(header)
        contentLength == ParseIntUpTo(match, 0, cfg.maxMessageSize + 1)
        messageStart == headerSeparator + 4
        messageEnd == messageStart + contentLength
    IN  IF headerSeparator = -1
          THEN IF Len(s.buffer) > cfg.maxHeaderSize
                 THEN [FramingError(s, PAYLOAD_TOO_LARGE, "Header too large")
                         EXCEPT !.buffer = <<>>]
                 ELSE s
        ELSE IF match = <<>>
          THEN ProcessContentLengthFraming(
                 [FramingError(s, PARSE_ERROR, "Missing Content-Length header")
                    EXCEPT !.buffer = SliceFrom(s.buffer, headerSeparator + 4)],
                 cfg)
        ELSE IF contentLength > cfg.maxMessageSize
          THEN ProcessContentLengthFraming(
                 [FramingError(s, PAYLOAD_TOO_LARGE, "Invalid Content-Length")
                    EXCEPT !.buffer = SliceFrom(s.buffer, headerSeparator + 4)],
                 cfg)
        ELSE IF Len(s.buffer) < messageEnd THEN s
        ELSE ProcessContentLengthFraming(
               HandleMessage(
                 [s EXCEPT !.buffer = SliceFrom(s.buffer, messageEnd)],
                 cfg, Slice(s.buffer, messageStart, messageEnd)),
               cfg)

\* validateInputSize(value, maxBytes).
ValidateInputSize(value, maxBytes) == ByteLength(value) <= maxBytes

RECURSIVE ProcessLines(_, _, _)
ProcessLines(s, cfg, lines) ==
  IF lines = <<>> THEN s
  ELSE
    LET trimmed == Trim(Head(lines))
    IN  IF trimmed = <<>> THEN ProcessLines(s, cfg, Tail(lines))
        ELSE IF ~ValidateInputSize(trimmed, cfg.maxMessageSize)
          THEN ProcessLines(
                 FramingError(
                   [s EXCEPT !.log = Append(@, "Message size validation failed")],
                   PAYLOAD_TOO_LARGE, "Message too large"),
                 cfg, Tail(lines))
        ELSE ProcessLines(HandleMessage(s, cfg, trimmed), cfg, Tail(lines))

\* Faulty variant of ProcessNewlineFraming: the lines handed over stay in
\* the buffer.
ProcessNewlineFraming_KeepsBuffer(s, cfg) ==
  LET lines == SplitLines(s.buffer)
  IN  ProcessLines(s, cfg, SubSeq(lines, 1, Len(lines) - 1))

ProcessNewlineFraming(s, cfg) ==
  LET lines == SplitLines(s.buffer)
  IN  ProcessLines([s EXCEPT !.buffer = lines[Len(lines)]], cfg,
                   SubSeq(lines, 1, Len(lines) - 1))

\* Faulty variant of ProcessBuffer: detection looks at the buffer as it is,
\* leading whitespace included.
ProcessBuffer_NoTrim(s, cfg) ==
  LET detect == ~s.framingResolved /\ cfg.framing = "auto"
      resolved ==
        IF ~detect THEN s
        ELSE IF StartsWith(s.buffer, HeaderKey)
          THEN [s EXCEPT !.currentFraming = "content-length",
                         !.framingResolved = TRUE]
        ELSE IF StartsWith(s.buffer, <<"{">>) \/ StartsWith(s.buffer, <<"[">>)
          THEN [s EXCEPT !.currentFraming = "newline",
                         !.framingResolved = TRUE]
        ELSE s
  IN  IF detect /\ ~resolved.framingResolved THEN s
      ELSE IF resolved.currentFraming = "content-length"
        THEN ProcessContentLengthFraming(resolved, cfg)
      ELSE ProcessNewlineFraming(resolved, cfg)

\* Faulty variant of ProcessBuffer: detection runs on every chunk in auto mode.
ProcessBuffer_Redetect(s, cfg) ==
  LET trimmed == TrimStart(s.buffer)
      resolved ==
        IF cfg.framing # "auto" THEN s
        ELSE IF StartsWith(trimmed, HeaderKey)
          THEN [s EXCEPT !.currentFraming = "content-length",
                         !.framingResolved = TRUE]
        ELSE IF StartsWith(trimmed, <<"{">>) \/ StartsWith(trimmed, <<"[">>)
          THEN [s EXCEPT !.currentFraming = "newline",
                         !.framingResolved = TRUE]
        ELSE s
  IN  IF cfg.framing = "auto" /\ ~resolved.framingResolved THEN s
      ELSE IF resolved.currentFraming = "content-length"
        THEN ProcessContentLengthFraming(resolved, cfg)
      ELSE ProcessNewlineFraming(resolved, cfg)

ProcessBuffer(s, cfg) ==
  LET trimmed == TrimStart(s.buffer)
      detect == ~s.framingResolved /\ cfg.framing = "auto"
      resolved ==
        IF ~detect THEN s
        ELSE IF StartsWith(trimmed, HeaderKey)
          THEN [s EXCEPT !.currentFraming = "content-length",
                         !.framingResolved = TRUE]
        ELSE IF StartsWith(trimmed, <<"{">>) \/ StartsWith(trimmed, <<"[">>)
          THEN [s EXCEPT !.currentFraming = "newline",
                         !.framingResolved = TRUE]
        ELSE s
  IN  IF detect /\ ~resolved.framingResolved THEN s
      ELSE IF resolved.currentFraming = "content-length"
        THEN ProcessContentLengthFraming(resolved, cfg)
      ELSE ProcessNewlineFraming(resolved, cfg)

(***************************************************************************)
(* Scenarios: a configuration and the symbols that arrive on stdin         *)
(***************************************************************************)
MaxRestarts == 1

Config(framing, maxConcurrency, notificationHandler) ==
  [framing |-> framing, maxConcurrency |-> maxConcurrency,
   maxMessageSize |-> MaxMessageSize, maxHeaderSize |-> MaxHeaderSize,
   notificationHandler |-> notificationHandler]

Obj(m) == <<"{", m, "}">>

Line(text) == Append(text, "LF")

\* A header block that declares n bytes.
Header(n) == HeaderKey \o <<"SP">> \o ToDecimal(n) \o HeaderSeparator

Pad(n) == [k \in 1..n |-> "x"]

NewlineStreams ==
  { Line(Obj("a")) \o Line(Obj("b")) \o Line(Obj("c")),
    Line(Obj("a")) \o Line(<<"[">> \o Obj("b") \o <<",">> \o Obj("n") \o <<"]">>),
    Line(<<"[">> \o Obj("n") \o <<",">> \o Obj("a") \o <<",">> \o Obj("w") \o <<"]">>),
    Line(Obj("n")) \o Line(Obj("i")) \o Line(Obj("z")),
    Line(Obj("w")) \o Line(Obj("o")) \o Line(<<"x", "x">>) \o Line(Obj("a")),
    Line(Obj("a")) \o HeaderKey \o <<"SP", "3">> \o HeaderSeparator \o Line(Obj("b")),
    Line(Pad(MaxMessageSize + 1)) \o Line(<<"SP">> \o Obj("v") \o <<"CR">>) }

ContentLengthStreams ==
  { FrameContentLength(Obj("a")) \o FrameContentLength(Obj("b")),
    FrameContentLength(<<"{", "a", "e2", "}">>) \o FrameContentLength(Obj("b")),
    FrameContentLength(Obj("n")) \o Line(Obj("a")) \o FrameContentLength(Obj("b")),
    Header(MaxMessageSize + 1) \o FrameContentLength(Obj("a")),
    <<"x", ":", "1">> \o HeaderSeparator \o FrameContentLength(Obj("a")),
    HeaderKey \o <<"SP", "3", "CR", "LF">> \o Pad(MaxHeaderSize - 18)
      \o HeaderSeparator \o Obj("a") \o FrameContentLength(Obj("b")),
    <<"c", "o", "n", "t", "e", "n", "t", "-", "l", "e", "n", "g", "t", "h", ":",
      "3">> \o HeaderSeparator \o Obj("a"),
    FrameContentLength(Obj("c")),
    FrameContentLength(<<"{", "n", "e2", "}">>) }

AutoStreams ==
  { <<"SP", "LF">> \o Line(Obj("a")),
    <<"x">> \o Line(Obj("a")) }

Scenarios ==
  { [cfg |-> Config(f, k, h), stream |-> st] :
      f \in {"newline"}, k \in {1, 2}, h \in {TRUE}, st \in NewlineStreams }
  \cup
  { [cfg |-> Config(f, k, h), stream |-> st] :
      f \in {"auto"}, k \in {0}, h \in {FALSE}, st \in NewlineStreams }
  \cup
  { [cfg |-> Config(f, k, h), stream |-> st] :
      f \in {"content-length", "auto"}, k \in {1}, h \in {TRUE},
      st \in ContentLengthStreams \cup AutoStreams }

(***************************************************************************)
(* startJsonRpcServer (src/src/server.ts)                                  *)
(***************************************************************************)
METHOD_NOT_FOUND == -32601

SERVER_ERROR == -32000

\* The input lines and what JSON.parse(line) gives for each (NoValue: it
\* throws).  A line that is a JSON primitive or null destructures to no id
\* and no method.
ServerLines ==
  [notjson |-> NoValue,
   empty   |-> NoValue,
   ping    |-> Message("2.0", "ping", "n1"),
   missing |-> Message("2.0", "missing", "n2"),
   call    |-> Message("2.0", "m", "s1"),
   ctor    |-> Message("2.0", "constructor", "n2"),
   proto   |-> Message("2.0", "__proto__", "n1"),
   notif   |-> Message("2.0", "ping", "absent"),
   nometh  |-> Message("2.0", "none", "n3"),
   five    |-> Primitive]

\* The own properties of the handlers object: registerHealth's two and a
\* handler "m" of the application.
Registered == {"ping", "version", "m"}

\* Properties the handlers object (a plain `{}`) inherits from
\* Object.prototype: functions, and __proto__, an object.
InheritedFunctions == {"constructor", "toString"}

InheritedObjects == {"__proto__"}

\* typeof handlers?.[method].
HandlerLookup(method) ==
  IF method \in Registered \cup InheritedFunctions THEN "function"
  ELSE IF method \in InheritedObjects THEN "object"
  ELSE "undefined"

\* What `await fn(params)` can give: [threw, value].  A value is a JSON
\* value ("okTrue", "version", "inherited", "json", "null"), "undefined",
\* or "bigint" (a value JSON.stringify rejects).
FnOutcomes(method) ==
  CASE method = "ping" -> {[threw |-> FALSE, value |-> "okTrue"]}
    [] method = "version" -> {[threw |-> FALSE, value |-> "version"]}
    [] method \in InheritedFunctions -> {[threw |-> FALSE, value |-> "inherited"]}
    [] OTHER -> {[threw |-> FALSE, value |-> v] :
                   v \in {"json", "null", "undefined", "bigint"}}
                \cup {[threw |-> TRUE, value |-> "undefined"]}

\* write(msg): JSON.stringify drops a member whose value is undefined.
ServerWrite(s, msg) == [s EXCEPT !.stdout = Append(@, msg)]

\* The server before its first line: rl over the given input.
StartJsonRpcServer(input) ==
  [input |-> input, next |-> 1, pc |-> "read",
   stdout |-> <<>>, stderr |-> <<>>, calls |-> <<>>, settled |-> <<>>]

\* Faulty variant of ParseFailed: the loop ends at the first bad line.
ParseFailed_Exits(s) ==
  [ServerWrite(s, [at |-> s.next, id |-> "null", kind |-> "error",
                   code |-> PARSE_ERROR, result |-> "absent"])
     EXCEPT !.pc = "closed"]

\* JSON.parse(line) threw: the parse error is written, then `continue`.
ParseFailed(s) ==
  [ServerWrite(s, [at |-> s.next, id |-> "null", kind |-> "error",
                   code |-> PARSE_ERROR, result |-> "absent"])
     EXCEPT !.next = @ + 1]

\* `if (!fn)`: Method not found is written, then `continue`.
MethodNotFound(s, id) ==
  [ServerWrite(s, [at |-> s.next, id |-> id, kind |-> "error",
                   code |-> METHOD_NOT_FOUND, result |-> "absent"])
     EXCEPT !.next = @ + 1]

\* The catch block: the error response, then the line on stderr.
HandlerThrew(s, id) ==
  [ServerWrite(s, [at |-> s.next, id |-> id, kind |-> "error",
                   code |-> SERVER_ERROR, result |-> "absent"])
     EXCEPT !.stderr = Append(@, "handler error"), !.next = @ + 1,
            !.pc = "read"]

\* Faulty variant of HandlerResolved: the response is written without the id.
HandlerResolved_NoId(s, id, result) ==
  IF result = "bigint" THEN HandlerThrew(s, id)
  ELSE [ServerWrite(s, [at |-> s.next, id |-> "absent", kind |-> "result",
                        code |-> 0,
                        result |-> IF result = "undefined" THEN "absent"
                                   ELSE result])
          EXCEPT !.next = @ + 1, !.pc = "read"]

\* `await write({ jsonrpc, id, result })` inside the try: JSON.stringify
\* throws for a value it rejects, and the catch block answers.
HandlerResolved(s, id, result) ==
  IF result = "bigint" THEN HandlerThrew(s, id)
  ELSE [ServerWrite(s, [at |-> s.next, id |-> id, kind |-> "result",
                        code |-> 0,
                        result |-> IF result = "undefined" THEN "absent"
                                   ELSE result])
          EXCEPT !.next = @ + 1, !.pc = "read"]

\* Faulty variant of ServerTurn: fn(params) is called and not awaited, the
\* loop goes on to the next line.
ServerTurn_NoAwait(s) ==
  LET req == ServerLines[s.input[s.next]]
  IN  IF req = NoValue THEN ParseFailed(s)
      ELSE IF HandlerLookup(req.method) = "undefined"
        THEN MethodNotFound(s, req.id)
      ELSE IF HandlerLookup(req.method) = "object"
        THEN HandlerThrew(s, req.id)
      ELSE [s EXCEPT !.calls = Append(@, [at |-> s.next,
                                          method |-> req.method]),
                     !.next = @ + 1]

\* One turn of `for await (const line of rl)` up to its first await of a
\* handler, or to the end of the turn.
ServerTurn(s) ==
  LET req == ServerLines[s.input[s.next]]
  IN  IF req = NoValue THEN ParseFailed(s)
      ELSE IF HandlerLookup(req.method) = "undefined"
        THEN MethodNotFound(s, req.id)
      ELSE IF HandlerLookup(req.method) = "object"
        THEN \* fn(params) throws a TypeError inside the try
             HandlerThrew(s, req.id)
      ELSE [s EXCEPT !.calls = Append(@, [at |-> s.next,
                                          method |-> req.method]),
                     !.pc = "handler"]

\* The rest of the turn once fn's promise has settled.
ServerSettled(s, outcome) ==
  LET req == ServerLines[s.input[s.next]]
      noted == [s EXCEPT !.settled = Append(@, [at |-> s.next,
                                                threw |-> outcome.threw,
                                                value |-> outcome.value])]
  IN  IF outcome.threw THEN HandlerThrew(noted, req.id)
      ELSE HandlerResolved(noted, req.id, outcome.value)

(***************************************************************************)
(* mapErrorToJsonRpc (src/src/client/mcp-client.ts) and RpcHandlerRegistry *)
(* (src/src/dispatcher.ts)                                                 *)
(***************************************************************************)
INVALID_PARAMS == -32602

RESOURCE_NOT_FOUND == -32002

\* The message categories of mapErrorToJsonRpc, in the order of its tests.
\* A thrown value is [isError, words, hasErrors]: whether it is an Error,
\* the categories its lower-cased message contains a word of, and whether
\* it is an object with an `errors` member.
MessageCategories ==
  <<"concurrency", "payload", "service", "config", "security", "notfound">>

CategoryCode(category) ==
  CASE category = "payload" -> INVALID_PARAMS
    [] category = "notfound" -> RESOURCE_NOT_FOUND
    [] OTHER -> INTERNAL_ERROR

MapErrorToJsonRpc(error) ==
  LET hits == {k \in DOMAIN MessageCategories :
                 MessageCategories[k] \in error.words}
      first == CHOOSE k \in hits : \A j \in hits : k <= j
  IN  IF error.isError /\ hits # {}
        THEN [code |-> CategoryCode(MessageCategories[first]),
              reason |-> MessageCategories[first]]
      ELSE IF error.hasErrors
        THEN [code |-> INVALID_PARAMS, reason |-> "validation_error"]
      ELSE [code |-> INTERNAL_ERROR, reason |-> "unknown_error"]

Thrown(isError, words, hasErrors) ==
  [isError |-> isError, words |-> words, hasErrors |-> hasErrors]

NoError == Thrown(FALSE, {}, FALSE)

NoResponse == [kind |-> "none", id |-> "absent", code |-> 0, reason |-> "none"]

\* A registry with the given hooks set and request handlers registered,
\* before any call.
NewRegistry(hooks, requestHandlers) ==
  [hooks |-> hooks, requestHandlers |-> requestHandlers,
   notificationHandlers |-> {}, log |-> <<>>, pc |-> "idle",
   request |-> Message("2.0", "none", "absent"), calls |-> <<>>,
   response |-> NoResponse, error |-> NoError, thrower |-> "none",
   hookResult |-> NoResponse, rejection |-> NoError,
   outcome |-> "pending", value |-> NoResponse]

\* `return value` of handleRequest: its promise resolves.
Return(r, value) ==
  [r EXCEPT !.pc = "returned", !.outcome = "resolved", !.value = value]

\* An error leaves handleRequest: its promise rejects.
Reject(r, error) ==
  [r EXCEPT !.pc = "returned", !.outcome = "rejected", !.rejection = error]

MethodNotFoundResponse(id) ==
  [kind |-> "error", id |-> id, code |-> METHOD_NOT_FOUND,
   reason |-> "Method not found"]

\* The default error handling of the catch block.
MappedErrorResponse(id, error) ==
  [kind |-> "error", id |-> id, code |-> MapErrorToJsonRpc(error).code,
   reason |-> MapErrorToJsonRpc(error).reason]

\* The catch block up to `await this.hooks.onError(...)`, or to its return.
Catch(r, error) ==
  IF "onError" \in r.hooks
    THEN [r EXCEPT !.pc = "onError", !.error = error,
                   !.calls = Append(@, "onError")]
    ELSE Return([r EXCEPT !.error = error],
                MappedErrorResponse(r.request.id, error))

\* The handler lookup and the call of the handler.
GetHandler(r) ==
  IF r.request.method \notin r.requestHandlers
    THEN Return(r, MethodNotFoundResponse(r.request.id))
    ELSE [r EXCEPT !.pc = "handler", !.calls = Append(@, "handler")]

\* handleRequest(request) up to its first await.
HandleRequest(r, request) ==
  LET called == [r EXCEPT !.request = request]
  IN  IF "beforeRequest" \in r.hooks
        THEN [called EXCEPT !.pc = "beforeRequest",
                            !.calls = Append(@, "beforeRequest")]
        ELSE GetHandler(called)

BeforeRequestSettled(r, threw, error) ==
  IF threw THEN Catch([r EXCEPT !.thrower = "beforeRequest"], error)
  ELSE GetHandler(r)

HandlerSettled(r, threw, error, response) ==
  IF threw THEN Catch([r EXCEPT !.thrower = "handler"], error)
  ELSE IF "afterRequest" \in r.hooks
    THEN [r EXCEPT !.pc = "afterRequest", !.response = response,
                   !.calls = Append(@, "afterRequest")]
  ELSE Return(r, response)

AfterRequestSettled(r, threw, error) ==
  IF threw THEN Catch([r EXCEPT !.thrower = "afterRequest"], error)
  ELSE Return(r, r.response)

\* onError settled: it threw, it returned a response, or it returned nothing.
OnErrorSettled(r, threw, error, hookResult) ==
  IF threw THEN Reject(r, error)
  ELSE IF hookResult # NoResponse
    THEN Return([r EXCEPT !.hookResult = hookResult], hookResult)
  ELSE Return(r, MappedErrorResponse(r.request.id, r.error))

\* The catch block of handleNotification up to `await this.hooks.onError`,
\* or to its end: the error is logged and the call resolves with no value.
CatchNotification(r, error) ==
  IF "onError" \in r.hooks
    THEN [r EXCEPT !.pc = "onErrorNotification", !.error = error,
                   !.calls = Append(@, "onError")]
    ELSE Return([r EXCEPT !.error = error,
                          !.log = Append(@, "Notification handler error:")],
                NoResponse)

\* The afterNotification hook, then the end of the try block.
AfterNotification(r) ==
  IF "afterNotification" \in r.hooks
    THEN [r EXCEPT !.pc = "afterNotification",
                   !.calls = Append(@, "afterNotification")]
    ELSE Return(r, NoResponse)

\* The notification handler lookup: a missing handler is skipped.
GetNotificationHandler(r) ==
  IF r.request.method \in r.notificationHandlers
    THEN [r EXCEPT !.pc = "notificationHandler",
                   !.calls = Append(@, "notificationHandler")]
    ELSE AfterNotification(r)

\* handleNotification(notification) up to its first await.
HandleNotification(r, notification) ==
  LET called == [r EXCEPT !.request = notification]
  IN  IF "beforeNotification" \in r.hooks
        THEN [called EXCEPT !.pc = "beforeNotification",
                            !.calls = Append(@, "beforeNotification")]
        ELSE GetNotificationHandler(called)

BeforeNotificationSettled(r, threw, error) ==
  IF threw
    THEN CatchNotification([r EXCEPT !.thrower = "beforeNotification"], error)
  ELSE GetNotificationHandler(r)

NotificationHandlerSettled(r, threw, error) ==
  IF threw
    THEN CatchNotification([r EXCEPT !.thrower = "notificationHandler"], error)
  ELSE AfterNotification(r)

AfterNotificationSettled(r, threw, error) ==
  IF threw
    THEN CatchNotification([r EXCEPT !.thrower = "afterNotification"], error)
  ELSE Return(r, NoResponse)

\* onError settled inside handleNotification's catch block: a throw leaves
\* the method; otherwise the error is logged.
OnErrorNotificationSettled(r, threw, error) ==
  IF threw THEN Reject(r, error)
  ELSE Return([r EXCEPT !.log = Append(@, "Notification handler error:")],
              NoResponse)

(***************************************************************************)
(* McpClient (src/src/client/mcp-client.ts)                                *)
(***************************************************************************)
MaxRequests == 3

MaxReceived == 3

\* The id member of a message: a JSON number, a JSON string (the key "1" is
\* not the key 1 of a Map), null, or no id member at all.
NumberId(n) == [type |-> "number", n |-> n]

StringId(n) == [type |-> "string", n |-> n]

NullId == [type |-> "null", n |-> 0]

AbsentId == [type |-> "absent", n |-> 0]

\* An incoming message: its id, which of the members `result` and `error` it
\* has, and the value of that member.
Incoming(id, has, value) == [id |-> id, has |-> has, value |-> value]

Unsettled == [state |-> "pending", value |-> "none"]

\* The client after its constructor.  promises[p] is the promise of the p-th
\* sendRequest call; pendingRequests holds for each key the resolve/reject
\* pair of one promise; sending holds the calls whose transport.send() is
\* awaited.
NewMcpClient ==
  [nextId |-> 1, pendingRequests |-> {}, promises |-> <<>>, sending |-> {},
   received |-> 0, last |-> Incoming(AbsentId, {}, "none")]

\* resolve(value) or reject(value) of promise p: a promise settles once.
SettlePromise(c, p, state, value) ==
  IF c.promises[p].state = "pending"
    THEN [c EXCEPT !.promises[p] = [state |-> state, value |-> value]]
    ELSE c

\* Map.prototype.delete(id).
DeletePending(c, id) ==
  [c EXCEPT !.pendingRequests = {e \in @ : e.id # id}]

\* sendRequest(request) up to `await this.transport.send(request)`; the
\* public methods pass `id: this.nextId++`.
SendRequest(c) ==
  LET id == NumberId(c.nextId)
      p == Len(c.promises) + 1
  IN  [c EXCEPT !.nextId = @ + 1,
                !.promises = Append(@, Unsettled),
                !.pendingRequests = {e \in @ : e.id # id}
                                      \cup {[id |-> id, promise |-> p]},
                !.sending = @ \cup {p}]

\* transport.send() of call p settled: a throw deletes the entry and rejects.
SendSettled(c, p, threw) ==
  LET sent == [c EXCEPT !.sending = @ \ {p}]
  IN  IF threw
        THEN SettlePromise(DeletePending(sent, NumberId(p)), p,
                           "rejected", "send failed")
        ELSE sent

\* Faulty variant of McpClientHandleMessage: the oldest pending request is
\* settled, whatever the id of the message.
McpClientHandleMessage_ByArrival(c, message) ==
  LET got == [c EXCEPT !.received = @ + 1, !.last = message]
      oldest == {e \in c.pendingRequests :
                   \A f \in c.pendingRequests : e.promise <= f.promise}
  IN  IF message.id.type \in {"absent", "null"} \/ oldest = {} THEN got
      ELSE LET pending == CHOOSE e \in oldest : TRUE
               deleted == DeletePending(got, pending.id)
           IN  IF "error" \in message.has
                 THEN SettlePromise(deleted, pending.promise, "rejected",
                                    message.value)
               ELSE IF "result" \in message.has
                 THEN SettlePromise(deleted, pending.promise, "resolved",
                                    message.value)
               ELSE deleted

\* handleMessage(message) of McpClient.
McpClientHandleMessage(c, message) ==
  LET got == [c EXCEPT !.received = @ + 1, !.last = message]
      hits == {e \in c.pendingRequests : e.id = message.id}
  IN  IF message.id.type \in {"absent", "null"} \/ hits = {} THEN got
      ELSE LET pending == CHOOSE e \in hits : TRUE
               deleted == DeletePending(got, message.id)
           IN  IF "error" \in message.has
                 THEN SettlePromise(deleted, pending.promise, "rejected",
                                    message.value)
               ELSE IF "result" \in message.has
                 THEN SettlePromise(deleted, pending.promise, "resolved",
                                    message.value)
               ELSE deleted

(***************************************************************************)
(* detectTransportFraming (src/src/transport/framing.ts)                   *)
(***************************************************************************)
\* The text of an environment variable that names a framing: a lower-case
\* word, possibly written in upper case and possibly surrounded by blanks.
FramingValue(word, padded, upper) ==
  [set |-> TRUE, word |-> word, padded |-> padded, upper |-> upper]

NoFramingValue == [set |-> FALSE, word |-> "", padded |-> FALSE, upper |-> FALSE]

\* The text of an endpoint variable: scheme and rest of a URL, possibly
\* surrounded by blanks; wellFormed: `new URL(text)` does not throw.
EndpointValue(scheme, host, padded, wellFormed) ==
  [set |-> TRUE, scheme |-> scheme, host |-> host, padded |-> padded,
   wellFormed |-> wellFormed]

NoEndpoint ==
  [set |-> FALSE, scheme |-> <<>>, host |-> "", padded |-> FALSE,
   wellFormed |-> FALSE]

HeadersValue(text) == [set |-> TRUE, text |-> text]

NoHeadersValue == [set |-> FALSE, text |-> <<>>]

\* String.prototype.trim and toLowerCase on these texts.
TrimValue(v) == [v EXCEPT !.padded = FALSE]

ToLowerCase(v) == [v EXCEPT !.upper = FALSE]

\* Truthiness of a string or undefined: set and not the empty string.
FramingTruthy(v) == v.set /\ (v.word # "" \/ v.padded)

EndpointTruthy(e) == e.set /\ (e.scheme # <<>> \/ e.host # "" \/ e.padded)

\* `case "word":` of the switch, a strict comparison with the literal.
IsCase(v, word) == v = FramingValue(word, FALSE, FALSE)

\* String.prototype.split(/[;,]/) and split("=").
RECURSIVE SplitAt(_, _)
SplitAt(s, separators) ==
  LET k == Span(s, (Whitespace \cup {"k", "j", "v", "=", ";", ","})
                     \ separators)
  IN  IF k = Len(s) THEN <<s>>
      ELSE <<Slice(s, 0, k)>> \o SplitAt(SliceFrom(s, k + 1), separators)

\* Array.prototype.join("=").
RECURSIVE JoinEquals(_)
JoinEquals(parts) ==
  IF Len(parts) = 1 THEN parts[1]
  ELSE parts[1] \o <<"=">> \o JoinEquals(Tail(parts))

UndefinedHeaders == [defined |-> FALSE, entries |-> {}]

\* parseHeaders(value): the record of the `key=value` segments (a later
\* segment of the same key replaces an earlier one), or undefined.
RECURSIVE HeaderEntries(_, _)
HeaderEntries(pairs, headers) ==
  IF pairs = <<>> THEN headers
  ELSE
    LET parts == SplitAt(Head(pairs), {"="})
        key == parts[1]
        rest == Tail(parts)
    IN  IF key = <<>> \/ rest = <<>>
          THEN HeaderEntries(Tail(pairs), headers)
          ELSE HeaderEntries(Tail(pairs),
                 {e \in headers : e.key # Trim(key)}
                   \cup {[key |-> Trim(key), value |-> Trim(JoinEquals(rest))]})

ParseHeaders(value) ==
  IF ~value.set \/ value.text = <<>> THEN UndefinedHeaders
  ELSE
    LET segments == SplitAt(value.text, {";", ","})
        pairs == SelectSeq([k \in 1..Len(segments) |-> Trim(segments[k])],
                           LAMBDA segment : segment # <<>>)
        headers == HeaderEntries(pairs, {})
    IN  IF pairs = <<>> \/ headers = {} THEN UndefinedHeaders
        ELSE [defined |-> TRUE, entries |-> headers]

\* validateHttpEndpoint / validateWebSocketEndpoint: TRUE when they return,
\* FALSE when they throw.
ValidateHttpEndpoint(endpoint) ==
  endpoint.wellFormed
    /\ StartsWith(Append(endpoint.scheme, ":"), <<"h", "t", "t", "p">>)

ValidateWebSocketEndpoint(endpoint) ==
  endpoint.wellFormed /\ StartsWith(Append(endpoint.scheme, ":"), <<"w", "s">>)

DefaultHttpEndpoint ==
  EndpointValue(<<"h", "t", "t", "p">>, "localhost:3000", FALSE, TRUE)

DefaultWsEndpoint == EndpointValue(<<"w", "s">>, "localhost:3001", FALSE, TRUE)

\* A TransportConfig that was returned, or the Error that was thrown.
Detected(framing, transport, endpoint, headers) ==
  [threw |-> FALSE, framing |-> framing, transport |-> transport,
   endpoint |-> endpoint, headers |-> headers]

DetectionThrew ==
  [threw |-> TRUE, framing |-> "none", transport |-> "none",
   endpoint |-> NoEndpoint, headers |-> UndefinedHeaders]

AutoDetectTransport(env) ==
  LET endpoint == IF env.MCP_HTTP_ENDPOINT.set
                    THEN TrimValue(env.MCP_HTTP_ENDPOINT)
                    ELSE NoEndpoint
  IN  IF EndpointTruthy(endpoint)
        THEN IF ValidateHttpEndpoint(endpoint)
               THEN Detected("auto", "http", endpoint,
                             ParseHeaders(env.MCP_HTTP_HEADERS))
               ELSE DetectionThrew
        ELSE Detected("auto", "stdio", NoEndpoint, UndefinedHeaders)

\* Faulty variant of DetectTransportFraming: a configured HTTP endpoint is
\* looked at before the framing value.
DetectTransportFraming_EndpointFirst(env) ==
  IF EndpointTruthy(env.MCP_HTTP_ENDPOINT) THEN AutoDetectTransport(env)
  ELSE IF IsCase(ToLowerCase(TrimValue(env.MCP_TRANSPORT_FRAMING)), "newline")
    THEN Detected("newline", "stdio", NoEndpoint, UndefinedHeaders)
  ELSE IF IsCase(ToLowerCase(TrimValue(env.MCP_TRANSPORT_FRAMING)),
                 "content-length")
    THEN Detected("content-length", "stdio", NoEndpoint, UndefinedHeaders)
  ELSE Detected("auto", "stdio", NoEndpoint, UndefinedHeaders)

DetectTransportFraming(env) ==
  LET framingValue == IF env.MCP_TRANSPORT_FRAMING.set
                        THEN ToLowerCase(TrimValue(env.MCP_TRANSPORT_FRAMING))
                        ELSE NoFramingValue
      httpEndpoint == IF EndpointTruthy(env.MCP_HTTP_ENDPOINT)
                        THEN env.MCP_HTTP_ENDPOINT ELSE DefaultHttpEndpoint
      wsEndpoint == IF EndpointTruthy(env.MCP_WS_ENDPOINT)
                      THEN env.MCP_WS_ENDPOINT ELSE DefaultWsEndpoint
  IN  IF ~FramingTruthy(framingValue) THEN AutoDetectTransport(env)
      ELSE IF IsCase(framingValue, "stdio") \/ IsCase(framingValue, "json-rpc")
        THEN Detected("auto", "stdio", NoEndpoint, UndefinedHeaders)
      ELSE IF IsCase(framingValue, "http") \/ IsCase(framingValue, "https")
        THEN IF ValidateHttpEndpoint(httpEndpoint)
               THEN Detected("auto", "http", httpEndpoint,
                             ParseHeaders(env.MCP_HTTP_HEADERS))
               ELSE DetectionThrew
      ELSE IF IsCase(framingValue, "websocket") \/ IsCase(framingValue, "ws")
        THEN IF ValidateWebSocketEndpoint(wsEndpoint)
               THEN Detected("auto", "websocket", wsEndpoint, UndefinedHeaders)
               ELSE DetectionThrew
      ELSE IF IsCase(framingValue, "newline")
        THEN Detected("newline", "stdio", NoEndpoint, UndefinedHeaders)
      ELSE IF IsCase(framingValue, "content-length")
        THEN Detected("content-length", "stdio", NoEndpoint, UndefinedHeaders)
      ELSE AutoDetectTransport(env)

\* The process before detectTransportFraming is called.
NotDetected(env) == [env |-> env, called |-> FALSE, result |-> DetectionThrew]

NoEnvironment ==
  [MCP_TRANSPORT_FRAMING |-> NoFramingValue, MCP_HTTP_ENDPOINT |-> NoEndpoint,
   MCP_WS_ENDPOINT |-> NoEndpoint, MCP_HTTP_HEADERS |-> NoHeadersValue]

(***************************************************************************)
(* StdioClientTransport (src/unnamed/part_008)                             *)
(***************************************************************************)
MaxArrivals == 4

MaxReceives == 4

\* The transport after its constructor.  resolveQueue holds the numbers of
\* the receive() calls that wait; arrivals, calls and delivered are the
\* history: the messages handled, the number of receive() calls, and which
\* call got which message.
NewStdioClientTransport ==
  [messageQueue |-> <<>>, resolveQueue |-> <<>>, arrivals |-> <<>>,
   ignored |-> 0, calls |-> 0, delivered |-> <<>>]

\* A receive() call resolves with a message.
Deliver(t, call, message) ==
  [t EXCEPT !.delivered = Append(@, [call |-> call, message |-> message])]

\* receive(): the oldest queued message, or a promise that waits.
ClientTransportReceive(t) ==
  LET call == t.calls + 1
      called == [t EXCEPT !.calls = call]
  IN  IF Len(t.messageQueue) > 0
        THEN Deliver([called EXCEPT !.messageQueue = Tail(@)], call,
                     Head(t.messageQueue))
        ELSE [called EXCEPT !.resolveQueue = Append(@, call)]

\* Faulty variant of ClientTransportHandleMessage: the receive() call that
\* waited last is served (pop, not shift).
ClientTransportHandleMessage_Lifo(t, message) ==
  LET arrived == [t EXCEPT !.arrivals = Append(@, message)]
  IN  IF Len(t.resolveQueue) > 0
        THEN Deliver([arrived EXCEPT
                        !.resolveQueue = SubSeq(@, 1, Len(@) - 1)],
                     t.resolveQueue[Len(t.resolveQueue)], message)
        ELSE [arrived EXCEPT !.messageQueue = Append(@, message)]

\* handleMessage(message): to the receive() call that waits longest, or
\* into the queue.
ClientTransportHandleMessage(t, message) ==
  LET arrived == [t EXCEPT !.arrivals = Append(@, message)]
  IN  IF Len(t.resolveQueue) > 0
        THEN Deliver([arrived EXCEPT !.resolveQueue = Tail(@)],
                     Head(t.resolveQueue), message)
        ELSE [arrived EXCEPT !.messageQueue = Append(@, message)]

\* The 'line' listener: JSON.parse(line), then handleMessage; a line that
\* is not JSON is ignored.
ClientTransportLine(t, line) ==
  IF line = "notjson" THEN [t EXCEPT !.ignored = @ + 1]
  ELSE ClientTransportHandleMessage(t, line)

(***************************************************************************)
(* CircuitBreaker (src/src/test-server.ts)                                 *)
(***************************************************************************)
DefaultFailureThreshold == 5

DefaultRecoveryTimeoutMs == 60000

MaxExecutes == 4

MaxTime == 3

MaxThreshold == 2

\* The breaker after its constructor.  now is Date.now(); inFlight counts the
\* wrapped functions awaited; executes, invocations, rejections, successes
\* count the execute() calls, the calls of fn, the "Circuit breaker is open"
\* rejections and the onSuccess() calls.
NewCircuitBreaker(failureThreshold, recoveryTimeoutMs) ==
  [failures |-> 0, lastFailureTime |-> 0, state |-> "closed",
   failureThreshold |-> failureThreshold,
   recoveryTimeoutMs |-> recoveryTimeoutMs,
   now |-> 0, inFlight |-> 0, executes |-> 0, invocations |-> 0,
   rejections |-> 0, successes |-> 0]

\* execute(fn) up to `await fn()`, or to its throw.
Execute(b) ==
  LET called == [b EXCEPT !.executes = @ + 1]
      invoke(c) == [c EXCEPT !.invocations = @ + 1, !.inFlight = @ + 1]
  IN  IF b.state = "open"
        THEN IF b.now - b.lastFailureTime > b.recoveryTimeoutMs
               THEN invoke([called EXCEPT !.state = "half-open"])
               ELSE [called EXCEPT !.rejections = @ + 1]
        ELSE invoke(called)

OnSuccess(b) ==
  [b EXCEPT !.failures = 0, !.state = "closed", !.successes = @ + 1]

\* Faulty variant of OnFailure: the breaker opens only above the threshold.
OnFailure_Above(b) ==
  LET failed == [b EXCEPT !.failures = @ + 1, !.lastFailureTime = b.now]
  IN  IF failed.failures > b.failureThreshold
        THEN [failed EXCEPT !.state = "open"]
        ELSE failed

OnFailure(b) ==
  LET failed == [b EXCEPT !.failures = @ + 1, !.lastFailureTime = b.now]
  IN  IF failed.failures >= b.failureThreshold
        THEN [failed EXCEPT !.state = "open"]
        ELSE failed

\* fn's promise settled: the rest of execute.
FnSettled(b, resolved) ==
  LET settled == [b EXCEPT !.inFlight = @ - 1]
  IN  IF resolved THEN OnSuccess(settled) ELSE OnFailure(settled)

(***************************************************************************)
(* Actions                                                                 *)
(***************************************************************************)
\* The transport as the constructor leaves it.
Constructed(cfg) ==
  [buffer |-> <<>>,
   currentFraming |-> IF cfg.framing = "newline" THEN "newline"
                      ELSE "content-length",
   framingResolved |-> (cfg.framing = "newline"),
   isRunning |-> FALSE,
   active |-> 0, queue |-> <<>>, tasks |-> <<>>, reqs |-> <<>>,
   out |-> <<>>, log |-> <<>>, invoked |-> <<>>, acqOrder |-> <<>>,
   immediate |-> {}, grantOrder |-> <<>>, events |-> <<>>]

Init ==
  /\ scn \in Scenarios
  /\ pos = 0
  /\ restarts = 0
  /\ buffer = Constructed(scn.cfg).buffer
  /\ currentFraming = Constructed(scn.cfg).currentFraming
  /\ framingResolved = Constructed(scn.cfg).framingResolved
  /\ isRunning = Constructed(scn.cfg).isRunning
  /\ active = Constructed(scn.cfg).active
  /\ queue = Constructed(scn.cfg).queue
  /\ tasks = Constructed(scn.cfg).tasks
  /\ reqs = Constructed(scn.cfg).reqs
  /\ out = Constructed(scn.cfg).out
  /\ log = Constructed(scn.cfg).log
  /\ invoked = Constructed(scn.cfg).invoked
  /\ acqOrder = Constructed(scn.cfg).acqOrder
  /\ immediate = Constructed(scn.cfg).immediate
  /\ grantOrder = Constructed(scn.cfg).grantOrder
  /\ events = Constructed(scn.cfg).events
  /\ server = StartJsonRpcServer(<<>>)
  /\ registry = NewRegistry({}, {})
  /\ lifecycle = "none"
  /\ clientTransport = NewStdioClientTransport
  /\ breaker = NewCircuitBreaker(DefaultFailureThreshold, DefaultRecoveryTimeoutMs)
  /\ client = NewMcpClient
  /\ detection = NotDetected(NoEnvironment)

\* start().
Start ==
  /\ ~isRunning
  /\ isRunning' = TRUE
  /\ UNCHANGED <<outsideTransport, scn, pos, restarts, buffer, currentFraming, framingResolved,
                 active, queue, tasks, reqs, out, log, invoked, acqOrder,
                 immediate, grantOrder, events>>

\* Faulty variant of Stop: the resolved framing survives stop().
Stop_KeepsResolution ==
  /\ isRunning
  /\ restarts < MaxRestarts
  /\ restarts' = restarts + 1
  /\ isRunning' = FALSE
  /\ buffer' = <<>>
  /\ UNCHANGED <<outsideTransport, scn, pos, active, queue, tasks, reqs, out, log, invoked,
                 acqOrder, immediate, grantOrder, events, framingResolved,
                 currentFraming>>

\* stop().
Stop ==
  /\ isRunning
  /\ restarts < MaxRestarts
  /\ restarts' = restarts + 1
  /\ isRunning' = FALSE
  /\ buffer' = <<>>
  /\ framingResolved' = (scn.cfg.framing # "auto")
  /\ currentFraming' = IF scn.cfg.framing # "newline" THEN "content-length"
                       ELSE currentFraming
  /\ UNCHANGED <<outsideTransport, scn, pos, active, queue, tasks, reqs, out, log, invoked,
                 acqOrder, immediate, grantOrder, events>>

\* onData(chunk): the next k symbols of the stream arrive as one chunk.
OnData(k) ==
  /\ isRunning
  /\ pos + k <= Len(scn.stream)
  /\ pos' = pos + k
  /\ Becomes(ProcessBuffer(
       [State EXCEPT !.buffer = @ \o SubSeq(scn.stream, pos + 1, pos + k)],
       scn.cfg))
  /\ UNCHANGED <<outsideTransport, scn, restarts>>

\* handleMessage resumes after `await this.semaphore.acquire()`: it calls
\* processRequest, which invokes the request handler (the handler either
\* returns a promise or throws synchronously), and goes on with the loop.
ResumeAcquire(t, sync) ==
  /\ tasks[t].st = "acquire"
  /\ tasks[t].granted
  /\ LET i == tasks[t].idx
         request == tasks[t].msgs[i]
         started == [State EXCEPT
                       !.invoked = Append(@, [kind |-> "request",
                                              at |-> <<t, i>>,
                                              active |-> active,
                                              extracted |-> Len(events)]),
                       !.reqs = Append(@, [at |-> <<t, i>>, request |-> request,
                                           st |-> IF sync THEN "settled"
                                                  ELSE "running"])]
         after == IF sync
                    THEN ProcessRequestSettled(started, <<t, i>>, request, "throw")
                    ELSE started
     IN  Becomes(RunLoop(after, scn.cfg, t, i + 1))
  /\ UNCHANGED <<outsideTransport, scn, pos, restarts>>

\* The request handler's promise settles and processRequest finishes.
HandlerSettle(r, outcome) ==
  /\ reqs[r].st = "running"
  /\ Becomes(ProcessRequestSettled(
       [State EXCEPT !.reqs[r].st = "settled"],
       reqs[r].at, reqs[r].request, outcome))
  /\ UNCHANGED <<outsideTransport, scn, pos, restarts>>

\* handleNotification finishes (no handler, the handler resolved, or it
\* threw and the error was logged) and handleMessage goes on with the loop.
ResumeNotification(t, threw) ==
  /\ tasks[t].st = "notification"
  /\ threw => scn.cfg.notificationHandler
  /\ Becomes(RunLoop(
       HandleNotificationSettled(State, <<t, tasks[t].idx>>, threw),
       scn.cfg, t, tasks[t].idx + 1))
  /\ UNCHANGED <<outsideTransport, scn, pos, restarts>>

Next ==
  \/ Start
  \/ Stop
  \/ \E k \in 1..(Len(scn.stream) - pos) : OnData(k)
  \/ \E t \in 1..Len(tasks), sync \in BOOLEAN : ResumeAcquire(t, sync)
  \/ \E r \in 1..Len(reqs), outcome \in HandlerOutcomes : HandlerSettle(r, outcome)
  \/ \E t \in 1..Len(tasks), threw \in BOOLEAN : ResumeNotification(t, threw)

Spec == Init /\ [][Next]_vars

(***************************************************************************)
(* startJsonRpcServer: actions                                             *)
(***************************************************************************)
MaxLines == 2

RECURSIVE SeqsUpTo(_, _)
SeqsUpTo(set, n) ==
  IF n = 0 THEN {<<>>}
  ELSE LET shorter == SeqsUpTo(set, n - 1)
       IN  shorter \cup {Append(q, x) : q \in shorter, x \in set}

\* No transport is constructed in a run of the server or of the registry.
NoTransport ==
  /\ scn = [cfg |-> Config("newline", 1, FALSE), stream |-> <<>>]
  /\ pos = 0
  /\ restarts = 0
  /\ buffer = <<>>
  /\ currentFraming = "newline"
  /\ framingResolved = TRUE
  /\ isRunning = FALSE
  /\ active = 0
  /\ queue = <<>>
  /\ tasks = <<>>
  /\ reqs = <<>>
  /\ out = <<>>
  /\ log = <<>>
  /\ invoked = <<>>
  /\ acqOrder = <<>>
  /\ immediate = {}
  /\ grantOrder = <<>>
  /\ events = <<>>

ServerInit ==
  /\ server \in {StartJsonRpcServer(input) :
                   input \in SeqsUpTo(DOMAIN ServerLines, MaxLines) \ {<<>>}}
  /\ registry = NewRegistry({}, {})
  /\ lifecycle = "none"
  /\ clientTransport = NewStdioClientTransport
  /\ breaker = NewCircuitBreaker(DefaultFailureThreshold, DefaultRecoveryTimeoutMs)
  /\ client = NewMcpClient
  /\ detection = NotDetected(NoEnvironment)
  /\ NoTransport

\* The next line is read and handled up to the handler's promise.
ServerLine ==
  /\ server.pc = "read"
  /\ server.next <= Len(server.input)
  /\ server' = ServerTurn(server)
  /\ UNCHANGED outsideServer

\* The handler's promise settles and the turn ends.
ServerHandlerSettle(outcome) ==
  /\ server.pc = "handler"
  /\ outcome \in FnOutcomes(ServerLines[server.input[server.next]].method)
  /\ server' = ServerSettled(server, outcome)
  /\ UNCHANGED outsideServer

ServerNext ==
  \/ ServerLine
  \/ \E outcome \in FnOutcomes("m") \cup FnOutcomes("ping")
                     \cup FnOutcomes("version") \cup FnOutcomes("toString") :
       ServerHandlerSettle(outcome)

ServerSpec == ServerInit /\ [][ServerNext]_vars

(***************************************************************************)
(* RpcHandlerRegistry: actions                                             *)
(***************************************************************************)
Hooks == {"beforeRequest", "afterRequest", "onError"}

\* The values a hook or a handler may throw.
ThrownValues ==
  {Thrown(TRUE, {}, FALSE), Thrown(TRUE, {"payload", "notfound"}, FALSE),
   Thrown(TRUE, {"service"}, TRUE), Thrown(FALSE, {}, TRUE),
   Thrown(FALSE, {}, FALSE)}

\* The response a request handler resolves with.
HandlerResult(request) ==
  [kind |-> "result", id |-> request.id, code |-> 0, reason |-> "none"]

\* The replacement error response an onError hook may return.
HookResponse(request) ==
  [kind |-> "error", id |-> request.id, code |-> SERVER_ERROR,
   reason |-> "onError"]

NotificationHooks == {"beforeNotification", "afterNotification"}

RegistryInit ==
  /\ registry \in {[NewRegistry(hooks, requestHandlers)
                       EXCEPT !.notificationHandlers = notificationHandlers] :
                     hooks \in SUBSET (Hooks \cup NotificationHooks),
                     requestHandlers \in {{}, {"m"}},
                     notificationHandlers \in {{}, {"m"}}}
  /\ server = StartJsonRpcServer(<<>>)
  /\ lifecycle = "none"
  /\ clientTransport = NewStdioClientTransport
  /\ breaker = NewCircuitBreaker(DefaultFailureThreshold, DefaultRecoveryTimeoutMs)
  /\ client = NewMcpClient
  /\ detection = NotDetected(NoEnvironment)
  /\ NoTransport

\* handleRequest is called with a request.
CallHandleRequest(id) ==
  /\ registry.pc = "idle"
  /\ registry' = HandleRequest(registry, Message("2.0", "m", id))
  /\ UNCHANGED outsideRegistry

SettleBeforeRequest(threw, error) ==
  /\ registry.pc = "beforeRequest"
  /\ registry' = BeforeRequestSettled(registry, threw, error)
  /\ UNCHANGED outsideRegistry

SettleRequestHandler(threw, error) ==
  /\ registry.pc = "handler"
  /\ registry' = HandlerSettled(registry, threw, error,
                                HandlerResult(registry.request))
  /\ UNCHANGED outsideRegistry

SettleAfterRequest(threw, error) ==
  /\ registry.pc = "afterRequest"
  /\ registry' = AfterRequestSettled(registry, threw, error)
  /\ UNCHANGED outsideRegistry

SettleOnError(threw, error, answers) ==
  /\ registry.pc = "onError"
  /\ registry' = OnErrorSettled(registry, threw, error,
                                IF answers THEN HookResponse(registry.request)
                                ELSE NoResponse)
  /\ UNCHANGED outsideRegistry

\* handleNotification is called with a notification.
CallHandleNotification ==
  /\ registry.pc = "idle"
  /\ registry' = HandleNotification(registry, Message("2.0", "m", "absent"))
  /\ UNCHANGED outsideRegistry

SettleBeforeNotification(threw, error) ==
  /\ registry.pc = "beforeNotification"
  /\ registry' = BeforeNotificationSettled(registry, threw, error)
  /\ UNCHANGED outsideRegistry

SettleNotificationHandler(threw, error) ==
  /\ registry.pc = "notificationHandler"
  /\ registry' = NotificationHandlerSettled(registry, threw, error)
  /\ UNCHANGED outsideRegistry

SettleAfterNotification(threw, error) ==
  /\ registry.pc = "afterNotification"
  /\ registry' = AfterNotificationSettled(registry, threw, error)
  /\ UNCHANGED outsideRegistry

SettleOnErrorNotification(threw, error) ==
  /\ registry.pc = "onErrorNotification"
  /\ registry' = OnErrorNotificationSettled(registry, threw, error)
  /\ UNCHANGED outsideRegistry

\* How an awaited hook or handler settles: it resolves, or throws a value.
Settlements ==
  {<<FALSE, NoError>>} \cup {<<TRUE, e>> : e \in ThrownValues}

RegistryNext ==
  \/ CallHandleNotification
  \/ \E o \in Settlements : SettleBeforeNotification(o[1], o[2])
  \/ \E o \in Settlements : SettleNotificationHandler(o[1], o[2])
  \/ \E o \in Settlements : SettleAfterNotification(o[1], o[2])
  \/ \E o \in Settlements : SettleOnErrorNotification(o[1], o[2])
  \/ \E id \in {"n1", "s1"} : CallHandleRequest(id)
  \/ \E o \in Settlements : SettleBeforeRequest(o[1], o[2])
  \/ \E o \in Settlements : SettleRequestHandler(o[1], o[2])
  \/ \E o \in Settlements : SettleAfterRequest(o[1], o[2])
  \/ \E o \in Settlements, answers \in BOOLEAN :
       SettleOnError(o[1], o[2], answers)

RegistrySpec == RegistryInit /\ [][RegistryNext]_vars

(***************************************************************************)
(* McpClient: actions                                                      *)
(***************************************************************************)
\* The messages the transport may deliver.
IncomingIds ==
  {AbsentId, NullId, StringId(1)} \cup {NumberId(n) : n \in 1..MaxRequests}

IncomingMessages ==
  {Incoming(id, has, value) :
     id \in IncomingIds, has \in SUBSET {"result", "error"},
     value \in {"u", "v"}}

ClientInit ==
  /\ lifecycle = "none"
  /\ clientTransport = NewStdioClientTransport
  /\ breaker = NewCircuitBreaker(DefaultFailureThreshold, DefaultRecoveryTimeoutMs)
  /\ client = NewMcpClient
  /\ detection = NotDetected(NoEnvironment)
  /\ server = StartJsonRpcServer(<<>>)
  /\ registry = NewRegistry({}, {})
  /\ NoTransport

\* A public method (listTools, callTool, ...) calls sendRequest.
ClientRequest ==
  /\ client.nextId <= MaxRequests
  /\ client' = SendRequest(client)
  /\ UNCHANGED outsideClient

\* transport.send() of call p resolves or throws.
ClientSendSettle(p, threw) ==
  /\ p \in client.sending
  /\ client' = SendSettled(client, p, threw)
  /\ UNCHANGED outsideClient

\* One turn of startListening: receive() gives a message, handleMessage runs.
ClientReceive(message) ==
  /\ client.received < MaxReceived
  /\ client' = McpClientHandleMessage(client, message)
  /\ UNCHANGED outsideClient

ClientNext ==
  \/ ClientRequest
  \/ \E p \in 1..MaxRequests, threw \in BOOLEAN : ClientSendSettle(p, threw)
  \/ \E message \in IncomingMessages : ClientReceive(message)

ClientSpec == ClientInit /\ [][ClientNext]_vars

(***************************************************************************)
(* detectTransportFraming: actions                                         *)
(***************************************************************************)
FramingWords ==
  {"", "stdio", "json-rpc", "http", "https", "websocket", "ws", "newline",
   "content-length", "tcp"}

FramingValues ==
  {NoFramingValue}
    \cup {FramingValue(word, FALSE, FALSE) : word \in FramingWords}
    \cup {FramingValue(word, TRUE, TRUE) : word \in FramingWords}

HttpEndpointValues ==
  { NoEndpoint,
    EndpointValue(<<>>, "", FALSE, FALSE),
    EndpointValue(<<>>, "", TRUE, FALSE),
    EndpointValue(<<"h", "t", "t", "p">>, "h", FALSE, TRUE),
    EndpointValue(<<"h", "t", "t", "p", "s">>, "h", TRUE, TRUE),
    EndpointValue(<<"w", "s">>, "h", FALSE, TRUE),
    EndpointValue(<<>>, "nourl", FALSE, FALSE) }

WsEndpointValues ==
  { NoEndpoint,
    EndpointValue(<<"w", "s", "s">>, "h", FALSE, TRUE),
    EndpointValue(<<"h", "t", "t", "p">>, "h", FALSE, TRUE) }

HeadersValues ==
  { NoHeadersValue,
    HeadersValue(<<>>),
    HeadersValue(<<"k", "=", "v">>),
    HeadersValue(<<"k">>),
    HeadersValue(<<"SP", "k", "SP", "=", "v", "=", "v", ";", "j", "=", "v",
                   ",", "k", "=", "j", ";", "=", "v">>) }

Environments ==
  [MCP_TRANSPORT_FRAMING : FramingValues, MCP_HTTP_ENDPOINT : HttpEndpointValues,
   MCP_WS_ENDPOINT : WsEndpointValues, MCP_HTTP_HEADERS : HeadersValues]

DetectInit ==
  /\ detection \in {NotDetected(env) : env \in Environments}
  /\ server = StartJsonRpcServer(<<>>)
  /\ registry = NewRegistry({}, {})
  /\ lifecycle = "none"
  /\ clientTransport = NewStdioClientTransport
  /\ breaker = NewCircuitBreaker(DefaultFailureThreshold, DefaultRecoveryTimeoutMs)
  /\ client = NewMcpClient
  /\ NoTransport

\* detectTransportFraming() is called.
CallDetectTransportFraming ==
  /\ ~detection.called
  /\ detection' = [detection EXCEPT
                     !.called = TRUE,
                     !.result = DetectTransportFraming(detection.env)]
  /\ UNCHANGED outsideDetection

DetectNext == CallDetectTransportFraming

DetectSpec == DetectInit /\ [][DetectNext]_vars

(***************************************************************************)
(* StdioTransport lifecycle: start() and stop() calls that find the        *)
(* transport already in the state they ask for                             *)
(***************************************************************************)
LifecycleScenarios ==
  {sc \in Scenarios : sc.cfg.framing = "auto" /\ sc.cfg.maxConcurrency = 1}

LifecycleInit ==
  /\ Init
  /\ scn \in LifecycleScenarios

\* Faulty variant of StartWhileRunning: the call starts over with an empty
\* buffer.
StartWhileRunning_Restarts ==
  /\ isRunning
  /\ lifecycle' = "Transport already running"
  /\ buffer' = <<>>
  /\ UNCHANGED <<scn, pos, restarts, isRunning, currentFraming,
                 framingResolved, active, queue, tasks, reqs, out, log,
                 invoked, acqOrder, immediate, grantOrder, events, server,
                 registry, client, detection, clientTransport, breaker>>

\* start() while isRunning: it throws Error("Transport already running")
\* before anything is assigned.
StartWhileRunning ==
  /\ isRunning
  /\ lifecycle' = "Transport already running"
  /\ UNCHANGED outsideLifecycle

\* stop() while not running: `if (!this.isRunning) return`.
StopWhileStopped ==
  /\ ~isRunning
  /\ lifecycle' = "stop returned"
  /\ UNCHANGED outsideLifecycle

LifecycleNext ==
  \/ Next
  \/ StartWhileRunning
  \/ StopWhileStopped

LifecycleSpec == LifecycleInit /\ [][LifecycleNext]_vars

(***************************************************************************)
(* StdioClientTransport: actions                                           *)
(***************************************************************************)
\* The lines the child process may print: two messages and a line that is
\* not JSON.
ClientTransportLines == {"u", "v", "notjson"}

ClientTransportInit ==
  /\ clientTransport = NewStdioClientTransport
  /\ breaker = NewCircuitBreaker(DefaultFailureThreshold, DefaultRecoveryTimeoutMs)
  /\ client = NewMcpClient
  /\ server = StartJsonRpcServer(<<>>)
  /\ registry = NewRegistry({}, {})
  /\ detection = NotDetected(NoEnvironment)
  /\ lifecycle = "none"
  /\ NoTransport

\* The caller calls receive().
CallReceive ==
  /\ clientTransport.calls < MaxReceives
  /\ clientTransport' = ClientTransportReceive(clientTransport)
  /\ UNCHANGED outsideClientTransport

\* The child process printed a line.
OnLine(line) ==
  /\ Len(clientTransport.arrivals) + clientTransport.ignored < MaxArrivals
  /\ clientTransport' = ClientTransportLine(clientTransport, line)
  /\ UNCHANGED outsideClientTransport

ClientTransportNext ==
  \/ CallReceive
  \/ \E line \in ClientTransportLines : OnLine(line)

ClientTransportSpec == ClientTransportInit /\ [][ClientTransportNext]_vars

(***************************************************************************)
(* CircuitBreaker: actions                                                 *)
(***************************************************************************)
BreakerInit ==
  /\ breaker \in {NewCircuitBreaker(failureThreshold, recoveryTimeoutMs) :
                     failureThreshold \in 1..MaxThreshold,
                     recoveryTimeoutMs \in {0, 1}}
  /\ clientTransport = NewStdioClientTransport
  /\ client = NewMcpClient
  /\ server = StartJsonRpcServer(<<>>)
  /\ registry = NewRegistry({}, {})
  /\ detection = NotDetected(NoEnvironment)
  /\ lifecycle = "none"
  /\ NoTransport

\* execute(fn) is called.
CallExecute ==
  /\ breaker.executes < MaxExecutes
  /\ breaker' = Execute(breaker)
  /\ UNCHANGED outsideBreaker

\* The promise of one wrapped function settles.
SettleFn(resolved) ==
  /\ breaker.inFlight > 0
  /\ breaker' = FnSettled(breaker, resolved)
  /\ UNCHANGED outsideBreaker

\* Time passes.
Tick ==
  /\ breaker.now < MaxTime
  /\ breaker' = [breaker EXCEPT !.now = @ + 1]
  /\ UNCHANGED outsideBreaker

BreakerNext ==
  \/ CallExecute
  \/ \E resolved \in BOOLEAN : SettleFn(resolved)
  \/ Tick

BreakerSpec == BreakerInit /\ [][BreakerNext]_vars

(***************************************************************************)
(* Properties                                                              *)
(***************************************************************************)
Limit == SemaphoreLimit(scn.cfg.maxConcurrency)

\* The responses written for the message at origin.
Written(origin) == {k \in DOMAIN out : out[k].origin = origin}

Running == {r \in DOMAIN reqs : reqs[r].st = "running"}

Settled == {r \in DOMAIN reqs : reqs[r].st = "settled"}

\* Every chunk was delivered and every handler and continuation has finished.
Quiescent ==
  /\ isRunning
  /\ pos = Len(scn.stream)
  /\ \A t \in DOMAIN tasks : tasks[t].st = "done"
  /\ Running = {}

\* C1: every Request whose handler has settled (resolved or thrown) has
\* exactly one response written to the output.
C1_ExactlyOneResponse ==
  \A r \in Settled : Cardinality(Written(reqs[r].at)) = 1

\* C2: every response written for a Request carries the Request's id,
\* whether the handler returned the response or threw.
C2_ResponseIdIsRequestId ==
  \A k \in DOMAIN out : \A r \in DOMAIN reqs :
    out[k].origin = reqs[r].at => out[k].id = reqs[r].request.id

\* A Notification as section 4.3 defines it: a non-empty string method and
\* no id key.
NotificationShape(message) ==
  message.method \notin {"none", ""} /\ message.id = "absent"

\* C3: nothing written to the output originates from a Notification, be it
\* one the transport treats as a notification or one of notification shape,
\* and whether its handler is absent, resolved or threw.
C3_NotificationWritesNothing ==
  \A k \in DOMAIN out :
    /\ out[k].origin # NoOrigin
    /\ LET message == tasks[out[k].origin[1]].msgs[out[k].origin[2]]
       IN  ~IsNotification(message) /\ ~NotificationShape(message)

\* A notification whose handler threw has been handled to its end.
C3_Witness ==
  \E t \in DOMAIN tasks :
    /\ tasks[t].st = "done"
    /\ IsNotification(tasks[t].msgs[Len(tasks[t].msgs)])
    /\ \E k \in DOMAIN log : log[k] = "Notification handler error"

\* C4: the granted-but-unreleased slots never exceed the limit, and the
\* request handlers that are running hold a slot each.
C4_ActiveAtMostLimit ==
  /\ active <= Limit
  /\ Cardinality(Running) <= active

\* Two handlers run under limit 2 while a third request waits.
C4_Witness ==
  /\ Limit = 2
  /\ Cardinality(Running) = 2
  /\ queue # <<>>

\* C5: with more Requests than the limit, once every handler has settled
\* every Request has had its handler invoked and has its response.
C5_EveryRequestAnswered ==
  (Quiescent /\ Len(reqs) > Limit) =>
    \A r \in DOMAIN reqs :
      /\ \E k \in DOMAIN invoked : invoked[k].at = reqs[r].at
      /\ Written(reqs[r].at) # {}

\* C6: acquire() grants at once while a slot is free (no caller waits while
\* active < limit); the callers that had to wait are granted in the order
\* of their acquire() calls, one per release.
C6_GrantsInArrivalOrder ==
  /\ acqOrder = grantOrder \o queue
  /\ queue # <<>> => active = Limit
  /\ active + Cardinality(Settled) = Len(grantOrder)

\* Two callers that had to queue have both been granted.
C6_Witness ==
  \E i, j \in DOMAIN grantOrder :
    /\ i < j
    /\ grantOrder[i] \notin immediate
    /\ grantOrder[j] \notin immediate

\* C7: the delivery of a Notification never waits for a gate slot, also
\* when it is an element of a batch that holds Requests.
C7_NotificationNeverWaitsForGate ==
  \A t \in DOMAIN tasks :
    (tasks[t].st = "acquire" /\ ~tasks[t].granted) =>
      \A j \in (tasks[t].idx + 1)..Len(tasks[t].msgs) :
        ~IsNotification(tasks[t].msgs[j])

\* C8: in auto mode, while the framing stays resolved (no stop()), no step
\* changes the discipline, and the frames a step extracts are extracted
\* with it.
C8_ResolvedFramingNeverChanges ==
  [][(scn.cfg.framing = "auto" /\ framingResolved /\ framingResolved') =>
       /\ currentFraming' = currentFraming
       /\ \A k \in (Len(events) + 1)..Len(events') :
            events'[k].op = "handleMessage" => events'[k].via = currentFraming
    ]_vars

\* Resolved to newline, a frame extracted, and the buffer now begins with
\* the content-length prefix.
C8_Witness ==
  /\ scn.cfg.framing = "auto"
  /\ framingResolved
  /\ currentFraming = "newline"
  /\ events # <<>>
  /\ StartsWith(TrimStart(buffer), HeaderKey)

\* The stream delivered as one chunk to a fresh, started transport.
OneChunk ==
  ProcessBuffer([Constructed(scn.cfg) EXCEPT !.isRunning = TRUE,
                                             !.buffer = scn.stream],
                scn.cfg)

\* C9: however the stream is cut into chunks, the frames extracted and the
\* framing errors emitted are those of the stream delivered as one chunk.
C9_ChunkingInvariant ==
  (restarts = 0 /\ pos = Len(scn.stream)) =>
    /\ events = OneChunk.events
    /\ buffer = OneChunk.buffer

RoundTripPayloads == {Obj("c"), <<"{", "n", "e2", "}">>}

\* C10: a payload framed as writeResponse frames it and read by the
\* content-length reader comes out as exactly one frame, the payload, and
\* the buffer is left empty.
C10_ContentLengthRoundTrip ==
  \A payload \in RoundTripPayloads :
    (/\ scn.cfg.framing = "content-length"
     /\ scn.stream = FrameContentLength(payload)
     /\ restarts = 0
     /\ pos = Len(scn.stream)) =>
      /\ events = <<[op |-> "handleMessage", raw |-> payload,
                     via |-> "content-length"]>>
      /\ buffer = <<>>

\* A header block that declares more than maxMessageSize, then a frame.
OversizedThenFrame == Header(MaxMessageSize + 1) \o FrameContentLength(Obj("a"))

InvalidContentLength ==
  [op |-> "sendError", code |-> PAYLOAD_TOO_LARGE,
   message |-> "Invalid Content-Length"]

\* C11: a header block whose Content-Length exceeds maxMessageSize is
\* rejected as soon as the block is complete (the declared bytes are not
\* awaited), only the block is skipped, and the frame of the next header
\* block is extracted.
C11_OversizedLengthSkipsHeaderOnly ==
  (/\ scn.stream = OversizedThenFrame
   /\ scn.cfg.framing = "content-length"
   /\ restarts = 0) =>
     /\ pos >= Len(Header(MaxMessageSize + 1)) =>
          /\ events # <<>>
          /\ events[1] = InvalidContentLength
          /\ Len(buffer) = pos - Len(Header(MaxMessageSize + 1))
               \/ buffer = <<>>
     /\ pos = Len(scn.stream) =>
          /\ events = <<InvalidContentLength,
                        [op |-> "handleMessage", raw |-> Obj("a"),
                         via |-> "content-length"]>>
          /\ buffer = <<>>

\* The oversized header block was rejected and the next frame is still
\* arriving.
C11_Witness ==
  /\ scn.stream = OversizedThenFrame
  /\ scn.cfg.framing = "content-length"
  /\ restarts = 0
  /\ events = <<InvalidContentLength>>
  /\ buffer # <<>>
  /\ pos < Len(scn.stream)

EndsWith(s, p) == Len(s) >= Len(p) /\ SubSeq(s, Len(s) - Len(p) + 1, Len(s)) = p

\* The stream ends with a well-formed frame of request `a`, framed in a
\* discipline the configuration accepts.
EndsWithGoodFrame ==
  \/ /\ scn.cfg.framing \in {"newline", "auto"}
     /\ EndsWith(scn.stream, Line(Obj("a")))
     /\ ~EndsWith(scn.stream, FrameContentLength(Obj("a")) \o <<"LF">>)
  \/ /\ scn.cfg.framing \in {"content-length", "auto"}
     /\ EndsWith(scn.stream, FrameContentLength(Obj("a")))

\* C12: malformed input (unparsable or wrong-shape JSON, a missing or
\* invalid Content-Length, an oversized line, leading bytes of neither
\* discipline in auto mode) does not stop the extraction and dispatch of a
\* well-formed frame that arrives after it.
C12_LaterFramesStillExtracted ==
  (EndsWithGoodFrame /\ restarts = 0 /\ pos = Len(scn.stream)) =>
    /\ \E k \in DOMAIN events :
         events[k].op = "handleMessage" /\ events[k].raw = Obj("a")
    /\ \E t \in DOMAIN tasks : tasks[t].msgs = <<Members["a"]>>

\* The lines of the server's input handled to their end.
ServerDone == 1..(server.next - 1)

\* The output lines written for input line k, in order.
ServerWritten(k) == SelectSeq(server.stdout, LAMBDA msg : msg.at = k)

ParseErrorLine(k) ==
  [at |-> k, id |-> "null", kind |-> "error", code |-> -32700,
   result |-> "absent"]

\* C13: a line that is not valid JSON produces exactly one output line,
\* the error response with id null and code -32700, and the turn that
\* handles it leaves the server reading the following line.
C13_ParseErrorAnsweredOnce ==
  /\ [](\A k \in ServerDone :
          ServerLines[server.input[k]] = NoValue =>
            ServerWritten(k) = <<ParseErrorLine(k)>>)
  /\ [][(/\ server.pc = "read"
         /\ server.next <= Len(server.input)
         /\ ServerLines[server.input[server.next]] = NoValue) =>
          /\ server'.stdout = Append(server.stdout, ParseErrorLine(server.next))
          /\ server'.next = server.next + 1
          /\ server'.pc = "read"]_vars

\* A line that is not JSON was answered and the line after it was handled.
C13_Witness ==
  /\ Len(server.input) = 2
  /\ server.input[1] = "notjson"
  /\ server.next = 3
  /\ Len(server.stdout) = 2

\* The frames handed to handleMessage that JSON.parse rejects.
UnparsableFrames ==
  {k \in DOMAIN events :
     events[k].op = "handleMessage" /\ ~SafeJsonParse(events[k].raw).valid}

\* C14: each frame that cannot be parsed as JSON is answered on the output
\* with an error response of code PARSE_ERROR and id null.
C14_ParseErrorSurfaced ==
  Cardinality({k \in DOMAIN out :
                 /\ out[k].kind = "error"
                 /\ out[k].code = PARSE_ERROR
                 /\ out[k].id = "null"})
    = Cardinality(UnparsableFrames)

\* C15: a request whose method has no registered handler gets exactly one
\* response, the error -32601 "Method not found" with the request's id, and
\* no function is invoked for it.
C15_UnregisteredMethodNotFound ==
  /\ \A k \in ServerDone :
       LET req == ServerLines[server.input[k]]
       IN  (req # NoValue /\ req.method \notin Registered \cup {"none"}) =>
             ServerWritten(k) = <<[at |-> k, id |-> req.id, kind |-> "error",
                                   code |-> -32601, result |-> "absent"]>>
  /\ \A c \in DOMAIN server.calls : server.calls[c].method \in Registered

\* The values a handler can resolve with that JSON can carry.
JsonValues == {"okTrue", "version", "json", "null"}

ClassOf(message) ==
  IF message.method \in {"none", ""} THEN "invalid"
  ELSE IF message.id = "absent" THEN "notification"
  ELSE IF message.id \in NumberIds \cup StringIds \cup {"null"} THEN "request"
  ELSE "invalid"

\* The messages handleMessage's loop has reached.
Reached ==
  {at \in UNION {{<<t, i>> : i \in 1..Len(tasks[t].msgs)} : t \in DOMAIN tasks} :
     at[2] <= tasks[at[1]].idx}

MessageAt(at) == tasks[at[1]].msgs[at[2]]

AcquiredFor(at) == \E k \in DOMAIN acqOrder : acqOrder[k] = at

NotifiedFor(at) ==
  \E k \in DOMAIN invoked :
    invoked[k].kind = "notification" /\ invoked[k].at = at

\* C17: every decoded message is treated as its class says: a Request (also
\* one with id null) goes to the gate, a Notification to the notification
\* handler and not to the gate, an Invalid message to neither.
C17_ClassificationBySection43 ==
  \A at \in Reached :
    /\ ClassOf(MessageAt(at)) = "request" <=> AcquiredFor(at)
    /\ (ClassOf(MessageAt(at)) = "notification" /\ scn.cfg.notificationHandler)
         <=> NotifiedFor(at)

\* The reached messages of the wrong shape.
InvalidReached == {at \in Reached : ClassOf(MessageAt(at)) = "invalid"}

C19_BatchElementsIndependent ==
  Quiescent =>
    \A t \in DOMAIN tasks :
      Len(tasks[t].msgs) >= 2 =>
        \A i \in 1..Len(tasks[t].msgs) :
          /\ ClassOf(tasks[t].msgs[i]) = "request" =>
               Cardinality(Written(<<t, i>>)) = 1
          /\ ClassOf(tasks[t].msgs[i]) = "notification" =>
               Written(<<t, i>>) = {}

\* C20: handleRequest resolves with a response, success or error, whatever
\* the handler and the hooks do; it never rejects.
C20_HandleRequestAlwaysResponds ==
  registry.pc = "returned" =>
    /\ registry.outcome = "resolved"
    /\ registry.value.kind \in {"result", "error"}

\* C21: when the registered handler throws, handleRequest returns the
\* response of onError if onError is set and returned one, and otherwise
\* the error response with the request's id and the error that
\* mapErrorToJsonRpc gives for the thrown value.
C21_HandlerThrowIsMapped ==
  (registry.pc = "returned" /\ registry.thrower = "handler") =>
    /\ registry.outcome = "resolved"
    /\ registry.value =
         IF registry.hookResult # NoResponse THEN registry.hookResult
         ELSE [kind |-> "error", id |-> registry.request.id,
               code |-> MapErrorToJsonRpc(registry.error).code,
               reason |-> MapErrorToJsonRpc(registry.error).reason]

\* C22: handleNotification resolves with no value in every case and never
\* rejects; an error thrown by the handler or by a hook is passed to
\* onError, when set, and is logged.
C22_HandleNotificationNeverSurfaces ==
  (registry.pc = "returned" /\ registry.request.id = "absent") =>
    /\ registry.outcome = "resolved"
    /\ registry.value = NoResponse
    /\ registry.thrower = "none" => registry.log = <<>>
    /\ registry.thrower # "none" =>
         /\ registry.log = <<"Notification handler error:">>
         /\ "onError" \in registry.hooks =>
              registry.calls[Len(registry.calls)] = "onError"

\* The code section 4.6 gives a thrown value: the validation-error shape
\* first, then the first message category, then INTERNAL_ERROR.
CodeByPrecedence(error) ==
  LET hits == {k \in DOMAIN MessageCategories :
                 MessageCategories[k] \in error.words}
  IN  IF error.hasErrors THEN INVALID_PARAMS
      ELSE IF hits # {}
        THEN CategoryCode(MessageCategories[
               CHOOSE k \in hits : \A j \in hits : k <= j])
      ELSE INTERNAL_ERROR

\* C23: the error response that handleRequest builds with mapErrorToJsonRpc
\* for a thrown value has the code of section 4.6's precedence: a value
\* with an `errors` member is INVALID_PARAMS (validation_error) whatever
\* its message says.
C23_MapperPrecedence ==
  (/\ registry.pc = "returned"
   /\ registry.outcome = "resolved"
   /\ registry.request.id # "absent"
   /\ registry.thrower # "none"
   /\ registry.hookResult = NoResponse) =>
     /\ registry.value.code = CodeByPrecedence(registry.error)
     /\ registry.error.hasErrors => registry.value.reason = "validation_error"

\* Every acquire() call has led to a handler invocation and every handler
\* has settled.
AllHandlersSettled ==
  /\ Len(reqs) = Len(acqOrder)
  /\ Running = {}

\* C24: each slot granted to a Request is released once when its handler
\* settles, by resolving or by throwing: the slots held are the grants not
\* yet settled, and once all handlers have settled no slot is held and no
\* caller waits.
C24_SlotReleasedOnEveryExit ==
  /\ active = Len(grantOrder) - Cardinality(Settled)
  /\ AllHandlersSettled => (active = 0 /\ queue = <<>>)

\* Three requests under limit 1 have settled, one of them by throwing.
C24_Witness ==
  /\ AllHandlersSettled
  /\ Limit = 1
  /\ Len(reqs) = 3
  /\ \E k \in DOMAIN log : log[k] = "Handler error"

\* The handleMessage calls whose frame parsed: the t-th of them made task t.
ParsedFrames ==
  SelectSeq(events, LAMBDA e :
    e.op = "handleMessage" /\ SafeJsonParse(e.raw).valid)

\* C25: a response is framed with the discipline under which its request's
\* frame was extracted, also when its handler settles after stop().
C25_ResponseFramedAsRequest ==
  \A k \in DOMAIN out :
    out[k].origin # NoOrigin =>
      out[k].framing = ParsedFrames[out[k].origin[1]].via

\* What processBuffer makes of the buffer and a chunk when no handler is in
\* flight and nobody waits at the gate.
ExtractedWhenIdle(chunk) ==
  ProcessBuffer([State EXCEPT !.buffer = @ \o chunk,
                              !.active = 0, !.queue = <<>>], scn.cfg)

PendingFor(c, message) == {e \in c.pendingRequests : e.id = message.id}

\* C27: an incoming message settles the pending request whose id equals the
\* message id and no other, and a message whose id matches no pending
\* request changes nothing.
C27_CorrelatedById ==
  [][client'.received = client.received + 1 =>
       LET message == client'.last
           hits == PendingFor(client, message)
       IN  IF hits = {}
             THEN /\ client'.pendingRequests = client.pendingRequests
                  /\ client'.promises = client.promises
             ELSE \A e \in hits :
                    /\ client'.promises[e.promise].state # "pending"
                    /\ client'.pendingRequests = client.pendingRequests \ {e}
                    /\ \A p \in DOMAIN client.promises \ {e.promise} :
                          client'.promises[p] = client.promises[p]]_vars

\* The same for the messages that are responses (they have a result or an
\* error member): the request of that id is settled with the message's value.
C27_ResponsesCorrelatedById ==
  [][(client'.received = client.received + 1 /\ client'.last.has # {}) =>
       LET message == client'.last
           hits == PendingFor(client, message)
       IN  IF hits = {}
             THEN /\ client'.pendingRequests = client.pendingRequests
                  /\ client'.promises = client.promises
             ELSE \A e \in hits :
                    /\ client'.promises[e.promise] =
                         [state |-> IF "error" \in message.has
                                      THEN "rejected" ELSE "resolved",
                          value |-> message.value]
                    /\ client'.pendingRequests = client.pendingRequests \ {e}
                    /\ \A p \in DOMAIN client.promises \ {e.promise} :
                          client'.promises[p] = client.promises[p]]_vars

\* The framing word of the environment, read without regard to case and
\* surrounding blanks ("" when the variable is unset or blank).
FramingWord == detection.env.MCP_TRANSPORT_FRAMING.word

\* Whether MCP_HTTP_ENDPOINT holds a text.
HttpEndpointConfigured ==
  /\ detection.env.MCP_HTTP_ENDPOINT.set
  /\ \/ detection.env.MCP_HTTP_ENDPOINT.host # ""
     \/ detection.env.MCP_HTTP_ENDPOINT.scheme # <<>>

\* C28: an explicit recognised MCP_TRANSPORT_FRAMING value wins and is
\* normalised: stdio and json-rpc give stdio with framing auto, newline and
\* content-length give stdio with that framing, http gives transport http
\* with the configured endpoint (an endpoint that is no http URL makes the
\* call throw); with no framing value and no HTTP endpoint the result is
\* stdio with framing auto.
C28_ExplicitFramingWins ==
  detection.called =>
    LET result == detection.result
        stdio(framing) ==
          /\ ~result.threw
          /\ result.transport = "stdio"
          /\ result.framing = framing
          /\ result.endpoint = NoEndpoint
        endpoint == detection.env.MCP_HTTP_ENDPOINT
        httpUrl == endpoint.wellFormed
                     /\ endpoint.scheme \in {<<"h", "t", "t", "p">>,
                                              <<"h", "t", "t", "p", "s">>}
    IN  /\ FramingWord \in {"stdio", "json-rpc"} => stdio("auto")
        /\ FramingWord = "newline" => stdio("newline")
        /\ FramingWord = "content-length" => stdio("content-length")
        /\ (FramingWord = "http" /\ HttpEndpointConfigured) =>
              IF httpUrl
                THEN /\ ~result.threw
                     /\ result.transport = "http"
                     /\ result.endpoint = endpoint
                ELSE result.threw
        /\ (FramingWord = "" /\ ~HttpEndpointConfigured) => stdio("auto")

\* http was asked for in upper case with blanks around it, an https endpoint
\* is configured, and the call returned.
C28_Witness ==
  /\ detection.called
  /\ detection.env.MCP_TRANSPORT_FRAMING = FramingValue("http", TRUE, TRUE)
  /\ HttpEndpointConfigured
  /\ detection.result.transport = "http"
  /\ detection.result.headers.defined

\* C29: while the framing is unresolved in auto mode, a chunk resolves it
\* from the buffer without its leading whitespace: "Content-Length:" first
\* gives content-length, else "{" or "[" gives newline, else nothing is
\* decided, no frame is handled, nothing is written and the buffer is the
\* old buffer followed by the chunk.
C29_DetectionRule ==
  [][(pos' > pos /\ scn.cfg.framing = "auto" /\ ~framingResolved) =>
       LET all == buffer \o SubSeq(scn.stream, pos + 1, pos')
           trimmed == TrimStart(all)
       IN  IF StartsWith(trimmed, HeaderKey)
             THEN framingResolved' /\ currentFraming' = "content-length"
           ELSE IF trimmed # <<>> /\ trimmed[1] \in {"{", "["}
             THEN framingResolved' /\ currentFraming' = "newline"
           ELSE /\ ~framingResolved'
                /\ currentFraming' = currentFraming
                /\ buffer' = all
                /\ events' = events
                /\ tasks' = tasks
                /\ out' = out]_vars

\* Auto mode, the chunks so far end inside the header key ("Content-"):
\* nothing is decided and the buffer holds them.
C29_Witness ==
  /\ scn.cfg.framing = "auto"
  /\ isRunning
  /\ ~framingResolved
  /\ pos = 8
  /\ buffer = SubSeq(HeaderKey, 1, 8)
  /\ events = <<>>

\* The framing state of the transport.
FramingState == <<framingResolved, currentFraming>>

\* C30: stop() on a running transport clears the buffer and leaves the
\* framing unresolved exactly when the configured mode is auto, and the
\* configured discipline in force with an explicit mode; the framing state
\* changes only in stop() and when a chunk resolves an unresolved auto
\* transport.
C30_StopResetsFraming ==
  [][/\ (isRunning /\ ~isRunning') =>
          /\ buffer' = <<>>
          /\ ~framingResolved' <=> scn.cfg.framing = "auto"
          /\ scn.cfg.framing # "auto" => currentFraming' = scn.cfg.framing
     /\ FramingState' # FramingState =>
          \/ isRunning /\ ~isRunning'
          \/ /\ pos' > pos
             /\ scn.cfg.framing = "auto"
             /\ ~framingResolved
             /\ framingResolved']_vars

\* An auto transport that had resolved newline was stopped and restarted, and
\* the next bytes resolved content-length.
C30_Witness ==
  /\ scn.cfg.framing = "auto"
  /\ restarts = 1
  /\ isRunning
  /\ framingResolved
  /\ currentFraming = "content-length"
  /\ events # <<>>
  /\ events[1].op = "handleMessage"
  /\ events[1].via = "newline"

\* The content-length reader is the one that reads the chunks.
ContentLengthInForce ==
  \/ scn.cfg.framing = "content-length"
  \/ scn.cfg.framing = "auto" /\ framingResolved
       /\ currentFraming = "content-length"

HeaderTooLarge ==
  [op |-> "sendError", code |-> PAYLOAD_TOO_LARGE, message |-> "Header too large"]

\* C31: in content-length framing a buffer without the header separator is
\* never longer than maxHeaderSize after a chunk: when the buffer with the
\* chunk has no separator and exceeds the limit, "Header too large" is
\* reported and the buffer is emptied, and when it does not exceed it the
\* buffer is kept and nothing is reported.
C31_UnterminatedHeaderBounded ==
  /\ []((ContentLengthInForce /\ IndexOf(buffer, HeaderSeparator) = -1)
          => Len(buffer) <= scn.cfg.maxHeaderSize)
  /\ [][(pos' > pos /\ ContentLengthInForce) =>
         LET all == buffer \o SubSeq(scn.stream, pos + 1, pos')
         IN  IndexOf(all, HeaderSeparator) = -1 =>
               IF Len(all) > scn.cfg.maxHeaderSize
                 THEN /\ buffer' = <<>>
                      /\ events' = Append(events, HeaderTooLarge)
                 ELSE /\ buffer' = all
                      /\ events' = events]_vars

\* A header region longer than the limit arrived without its separator and
\* was discarded.
C31_Witness ==
  /\ ContentLengthInForce
  /\ buffer = <<>>
  /\ pos = MaxHeaderSize + 1
  /\ events = <<HeaderTooLarge>>

\* The frames handed to handleMessage, in order.
FramesHandled ==
  LET calls == SelectSeq(events, LAMBDA e : e.op = "handleMessage")
  IN  [k \in 1..Len(calls) |-> calls[k].raw]

\* The 0-based index of the first occurrence of p in s at or after from, or -1.
IndexFrom(s, p, from) ==
  LET k == IndexOf(SliceFrom(s, from), p)
  IN  IF from > Len(s) \/ k = -1 THEN -1 ELSE from + k

\* frames occur in text one after the other without overlap, the first of
\* them at or after from.
RECURSIVE OccurInOrder(_, _, _)
OccurInOrder(frames, text, from) ==
  \/ frames = <<>>
  \/ LET k == IndexFrom(text, Head(frames), from)
     IN  /\ k # -1
         /\ OccurInOrder(Tail(frames), text, k + Len(Head(frames)))

\* C32: the frames handed to message handling are pieces of the delivered
\* part of the stream that do not overlap and lie in the order of the
\* hand-over, so no byte is in two frames and no frame is handed over twice;
\* a chunk only adds frames at the end.
C32_ConsumedMonotonically ==
  /\ [] OccurInOrder(FramesHandled, SubSeq(scn.stream, 1, pos), 0)
  /\ [][/\ Len(FramesHandled') >= Len(FramesHandled)
         /\ SubSeq(FramesHandled', 1, Len(FramesHandled)) = FramesHandled]_vars

\* Two frames were handed over and the beginning of a third waits in the
\* buffer.
C32_Witness ==
  /\ Len(FramesHandled) = 2
  /\ FramesHandled[1] # FramesHandled[2]
  /\ buffer # <<>>
  /\ pos < Len(scn.stream)
  /\ restarts = 0

\* How many times hook ran in the call.
Runs(hook) == Len(SelectSeq(registry.calls, LAMBDA c : c = hook))

\* A handleRequest call returned a response and nothing threw in it.
RequestReturnedCleanly ==
  /\ registry.pc = "returned"
  /\ registry.outcome = "resolved"
  /\ registry.value # NoResponse
  /\ registry.thrower = "none"

\* C33: in a handleRequest call in which nothing throws, a configured
\* beforeRequest hook runs exactly once and first, and a configured
\* afterRequest hook runs exactly once and last, also when the response is
\* the method-not-found error.
C33_HooksAroundEveryRequest ==
  RequestReturnedCleanly =>
    /\ "beforeRequest" \in registry.hooks =>
          Runs("beforeRequest") = 1 /\ registry.calls[1] = "beforeRequest"
    /\ "afterRequest" \in registry.hooks =>
          /\ Runs("afterRequest") = 1
          /\ registry.calls[Len(registry.calls)] = "afterRequest"

\* The same for the calls that found a handler.
C33_HooksAroundHandledRequest ==
  (RequestReturnedCleanly /\ registry.value.kind = "result") =>
    /\ "beforeRequest" \in registry.hooks =>
          Runs("beforeRequest") = 1 /\ registry.calls[1] = "beforeRequest"
    /\ "afterRequest" \in registry.hooks =>
          /\ Runs("afterRequest") = 1
          /\ registry.calls[Len(registry.calls)] = "afterRequest"
          /\ registry.response = registry.value

\* The callers in a sequence of callers.
Callers(order) == {order[k] : k \in DOMAIN order}

\* C34: while a caller waits at the gate every slot is taken, and no caller
\* whose acquire() came after a waiting caller's holds or held a slot.
C34_NoIdleSlotWhileWaiting ==
  /\ queue # <<>> => active = Limit
  /\ \A i, j \in DOMAIN acqOrder :
        (i < j /\ acqOrder[i] \in Callers(queue)) =>
          acqOrder[j] \notin Callers(grantOrder)

\* A slot was released and handed to the first waiter while another caller
\* went on waiting.
C34_Witness ==
  /\ queue # <<>>
  /\ active = Limit
  /\ \E k \in DOMAIN grantOrder : grantOrder[k] \notin immediate
  /\ Settled # {}

\* C35: whenever an incoming message removes an entry from the
\* pending-request map, the promise of that entry is settled in the same step.
C35_NoPendingRequestLost ==
  [][client'.received = client.received + 1 =>
       \A e \in client.pendingRequests \ client'.pendingRequests :
         client'.promises[e.promise].state # "pending"]_vars

\* The same for the messages that have a result or an error member.
C35_ResponseSettlesRemovedEntry ==
  [][(client'.received = client.received + 1 /\ client'.last.has # {}) =>
       \A e \in client.pendingRequests \ client'.pendingRequests :
         client'.promises[e.promise].state # "pending"]_vars

C37_Lifecycle ==
  /\ [](~isRunning => ENABLED Start)
  /\ [][(lifecycle' # lifecycle) =>
         /\ transportVars' = transportVars
         /\ lifecycle' = IF isRunning THEN "Transport already running"
                          ELSE "stop returned"]_vars
  /\ [][(isRunning' # isRunning) =>
         /\ lifecycle' = lifecycle
         /\ isRunning' =>
              <<buffer, currentFraming, framingResolved, active, queue,
                tasks, reqs, out, log, events>>'
              = <<buffer, currentFraming, framingResolved, active, queue,
                  tasks, reqs, out, log, events>>]_vars

\* start() was refused on a transport that had been stopped and started
\* again, with part of the stream in the buffer.
C37_Witness ==
  /\ lifecycle = "Transport already running"
  /\ isRunning
  /\ restarts = 1
  /\ buffer # <<>>

\* C38: the k-th message that arrived is delivered to the k-th receive()
\* call and to no other; what is not yet delivered waits in its queue, in
\* order; the message queue and the queue of waiting receive() calls are
\* never both non-empty.
C38_EachMessageToOneReceive ==
  LET t == clientTransport
      n == Len(t.delivered)
  IN  /\ ~(t.messageQueue # <<>> /\ t.resolveQueue # <<>>)
      /\ n = Min(Len(t.arrivals), t.calls)
      /\ \A k \in 1..n :
            t.delivered[k] = [call |-> k, message |-> t.arrivals[k]]
      /\ t.messageQueue = SubSeq(t.arrivals, n + 1, Len(t.arrivals))
      /\ t.resolveQueue = [k \in 1..(t.calls - n) |-> n + k]

\* Two receive() calls waited and were served by two different messages,
\* and a third message waits for a receive() call.
C38_Witness ==
  /\ Len(clientTransport.delivered) = 2
  /\ clientTransport.delivered[1].message # clientTransport.delivered[2].message
  /\ clientTransport.messageQueue # <<>>
  /\ clientTransport.ignored = 1

\* C39: a closed breaker has fewer failures than the threshold; a
\* successful call sets failures to 0 and the state to closed; execute on an
\* open breaker whose recovery timeout has not elapsed rejects, fn is not
\* invoked and the breaker stays as it is.
C39_CircuitBreaker ==
  /\ [](breaker.state = "closed" =>
          breaker.failures < breaker.failureThreshold)
  /\ [][breaker'.successes # breaker.successes =>
           breaker'.failures = 0 /\ breaker'.state = "closed"]_vars
  /\ [][(/\ breaker'.executes # breaker.executes
          /\ breaker.state = "open"
          /\ breaker.now - breaker.lastFailureTime
               <= breaker.recoveryTimeoutMs) =>
           /\ breaker'.rejections = breaker.rejections + 1
           /\ breaker'.invocations = breaker.invocations
           /\ breaker'.state = "open"
           /\ breaker'.failures = breaker.failures]_vars

\* The breaker opened at the threshold of 2, refused a call, and a call that
\* was in flight then succeeded and closed it.
C39_Witness ==
  /\ breaker.failureThreshold = 2
  /\ breaker.rejections = 1
  /\ breaker.successes = 1
  /\ breaker.state = "closed"
  /\ breaker.failures = 0
  /\ breaker.lastFailureTime > 0

====
